---- MODULE Spec2Model ----
(***************************************************************************)
(* Per-session email cache and IMAP command layer of open-email-agent.     *)
(*                                                                         *)
(* The agent tools of lib/email_tools.py run in worker threads (one per    *)
(* chat session with a turn in progress); the UI fetch functions of        *)
(* web_app/backend/api_server.py run as coroutines on the event loop and   *)
(* take _imap_lock.  All of them share the one module-level `mailbox`.     *)
(***************************************************************************)
EXTENDS Integers, Sequences, FiniteSets, TLC

\* ------------------------------------------------------------------ bounds
MaxCalls == 3          \* operations started in one behaviour
MaxIndex == 2          \* email_index arguments range over 0..MaxIndex

\* --------------------------------------------------------------- constants
Sessions == {"s1", "s2"}             \* chat sessions with a worker thread
UiTasks == {"ws", "api"}             \* coroutines: /ws/emails and GET /api/emails
DefaultSession == "default"          \* ContextVar default of chat_session_id_ctx
EMAILS_UI_SESSION_ID == "emails_ui_session"
NoFolder == ""                       \* no folder selected on the connection
GmailPrefix == "[Gmail]/"

\* The account's folders in server order, as mailbox.folder.list() returns them.
FolderList ==
  << [name |-> "INBOX", noselect |-> FALSE],
     [name |-> "[Gmail]", noselect |-> TRUE],
     [name |-> "[Gmail]/Trash", noselect |-> FALSE] >>

FolderNames == {FolderList[i].name : i \in 1..Len(FolderList)}
Selectable == {FolderList[i].name : i \in {j \in 1..Len(FolderList) : ~FolderList[j].noselect}}

\* Folder names a caller may pass (literal, alias without prefix, unknown).
FolderArgs == {"INBOX", "Trash", "[Gmail]/Trash", "Nope"}

\* ----------------------------------------------------------- Python values
\* A Python value is a tagged value; == compares tag and value, so that
\* 3 == "3" is False as in Python.  A str with v = -1 is a non-numeric text.
PyNone == [t |-> "none", v |-> 0]
PyInt(n) == [t |-> "int", v |-> n]
PyStr(n) == [t |-> "str", v |-> n]
NotANumber == PyStr(-1)

\* int(x): identity on int, parse on a decimal str, ValueError/TypeError otherwise.
py_int_ok(x) == x.t = "int" \/ (x.t = "str" /\ x.v >= 0)
py_int(x) == PyInt(x.v)

\* ------------------------------------------------------------ cache entries
\* A cached email object; `folder` is the folder the message was fetched from
\* (part of the message's identity, never read by the tools).
NoneEntry == [uid |-> PyNone, folder |-> NoFolder]
IsNone(e) == e = NoneEntry

RECURSIVE SortedSeq(_)
SortedSeq(S) ==
  IF S = {} THEN <<>>
  ELSE LET m == CHOOSE x \in S : \A y \in S : x <= y
       IN <<m>> \o SortedSeq(S \ {m})

VARIABLES
  mailbox,          \* TRUE iff email_tools.mailbox is a live handle (not None)
  uidIsInt,         \* whether the mail library delivers email.uid as int or as str
  msgs,             \* server: folder name -> set of uids present
  uidNext,          \* server: folder name -> next uid to assign
  selected,         \* folder selected on the shared connection
  _emails_caches,   \* chat_session_id -> list object holding entries (email or None)
  disk,             \* EMAILS_CACHE_FILE: chat_session_id -> list of uid-or-None
  heap,             \* list objects: object id -> contents
  thread,           \* worker thread -> frame of the tool call in progress:
                    \*   pc (next step), call (arguments), emails, target
                    \*   (email_index / email_uid / email object), cache (object id
                    \*   of the local `cache`), ncmd (server commands issued)
  last,             \* the tool result handed to the agent runtime by this step
                    \*   (NoResult when the step returns from no tool)
  lock,             \* holder of _imap_lock, or "free"
  upc,              \* UI task -> next step
  ufolder,          \* UI task -> folder_name being fetched
  _emails_ui_cache, \* folder name -> list of uid strings shown by the UI
  agent_instances,  \* session ids that have an agent instance
  imap_sessions,    \* server: the authenticated IMAP sessions that are open
  handle,           \* the session email_tools.mailbox refers to (NoSession: None)
  request,          \* HTTP / startup task -> its position and locals
  address_book_data, \* email_tools.address_book_data: id (str) -> entry
  address_book_json, \* the file address_book.json: id (str) -> entry
  reply,            \* the last address-book call with what it returned
  assigned,         \* history: the greatest id add_people has assigned so far
                    \*   in this run (0: none yet)
  formatted_email,  \* the sender fields of the last email the UI fetch formatted
  listed,           \* the last filtered read_emails call with what it fetched
  _folder_unread_counts, \* folder name -> unread counter shown by the UI
  isUnread,         \* folder name -> the isUnread field of each email of
                    \*   _emails_ui_cache[folder], in list order
  _waiters,         \* _imap_lock._waiters: the tasks queued for the lock
  active_connections, \* key -> the WebSocket registered under it
  connections,      \* WebSocket -> endpoint, handler position, chat_session_id
  startup,          \* initialize_agent_async: pc (the coroutine's position) and
                    \*   the executor threads it started (email, agent)
  smtp_client,      \* TRUE iff email_tools.smtp_client is a handle (not None)
  agent_initialized, \* the flag of that name
  agent_succeeded,  \* history: an agent initialisation has succeeded
  health,           \* the last answer of GET /api/health
  extracted,        \* the last reasoning_content with the tool calls extracted
  websocket,        \* the /ws/emails connection: the handler's position and
                    \*   locals (listing: what mailbox.folder.list() returned,
                    \*   folders, ordered_folders, idx: the loop index) and
                    \*   out: the messages sent so far
  calls             \* operations started so far

vars == << mailbox, uidIsInt, msgs, uidNext, selected, _emails_caches, disk,
           heap, thread, last,
           lock, upc, ufolder, _emails_ui_cache, agent_instances, websocket, calls,
           imap_sessions, handle, request,
           address_book_data, address_book_json, reply, assigned,
           formatted_email, listed, _folder_unread_counts, isUnread, _waiters,
           active_connections, connections,
           startup, smtp_client, agent_initialized, agent_succeeded, health,
           extracted >>

serverVars == << msgs, uidNext, selected >>
cacheVars == << _emails_caches, disk, heap >>
uiVars == << lock, upc, ufolder, _emails_ui_cache >>

\* email.uid of the message with uid n, as the mail library delivers it.
EmailUid(n) == IF uidIsInt THEN PyInt(n) ELSE PyStr(n)
Email(f, n) == [uid |-> EmailUid(n), folder |-> f]

NoObj == 0
\* imap_tools.MailMessageFlags, and no flag / no flag command.
SEEN == "\\Seen"
FLAGGED == "\\Flagged"
ANSWERED == "\\Answered"
DRAFT == "\\Draft"
NoFlag == ""
NoCmd == [uid |-> PyNone, flag |-> NoFlag, value |-> TRUE]
\* ------------------------------------------------------------ address book
\* A Python list or None, as the emails / groups of an entry or an argument.
PyList(s) == [t |-> "list", v |-> s]
NoList == [t |-> "none", v |-> <<>>]
NoText == "<None>"                   \* a str argument left at None
\* An entry of the book; the key and the id field are Python strs.
Person(id, name, emails, groups) ==
  [id |-> PyStr(id), name |-> name, emails |-> emails, groups |-> groups]
\* address_book.json read at import: two people, the ids add_people gave them
TwoPeople ==
  (PyStr(1) :> Person(1, "Ann", PyList(<< "a" >>), PyList(<< "G" >>)))
  @@ (PyStr(2) :> Person(2, "Bob", PyList(<<>>), PyList(<<>>)))
NoReply == [op |-> "none", id |-> PyNone, name |-> NoText, emails |-> NoList,
            groups |-> NoList, res |-> "none", new_id |-> PyNone, infos |-> <<>>]

\* The tasks that open an IMAP session, each named by its handler; a session
\* is named by the task that opened it.
LazyTasks == {"get_emails", "get_email_folders", "websocket_emails"}
InitTasks == {"startup"} \cup LazyTasks
ConnTasks == InitTasks \cup {"move_email_endpoint"}
Endpoints == {"get_emails", "get_email_folders", "flag_email_endpoint",
              "delete_email_endpoint", "move_email_endpoint", "send_email_endpoint"}
\* no IMAP session (email_tools.mailbox is None)
NoSession == ""
\* a task that has not started; conn is the task's local result of login(),
\* email_uid its path parameter, smtp_client its local of that name, status
\* the HTTP status it answered with (0: none yet), ncmd the commands it sent
NoRequest == [pc |-> "idle", conn |-> NoSession, email_uid |-> PyNone, flag_type |-> "",
              smtp_client |-> TRUE, status |-> 0, ncmd |-> 0]
\* The WebSocket objects accepted in one run; websocket_id = id(websocket) is
\* the object's number.  A connection not yet accepted:
WebSockets == {1, 2, 3}
NoConnection == [endpoint |-> "", pc |-> "none", chat_session_id |-> PyNone]
\* initialize_agent_async not yet scheduled; no health check answered yet
NotStarted == [pc |-> "created", email |-> "none", agent |-> "none"]
NoHealth == [status |-> "", imap_connected |-> FALSE, smtp_connected |-> FALSE,
             initialized |-> FALSE]
\* nothing extracted yet
NotExtracted == [done |-> FALSE, kind |-> "", items |-> <<>>, raised |-> FALSE,
                 tool_calls |-> <<>>]
\* no /ws/emails connection
NoWebsocket == [pc |-> "none", listing |-> <<>>, folders |-> <<>>, ordered_folders |-> <<>>,
               idx |-> 0, out |-> <<>>]
NoCall == [op |-> "none", email_index |-> PyNone, email_uid |-> PyNone, folder |-> NoFolder,
           flag_type |-> "", value |-> TRUE, start_date |-> ""]
NoTarget == [index |-> 0, uid |-> PyNone, email |-> NoneEntry]
IdleThread == [pc |-> "idle", call |-> NoCall, emails |-> <<>>, target |-> NoTarget,
               cache |-> NoObj, ncmd |-> 0, imap_flag |-> NoFlag, sent |-> NoCmd]
NoResult == [t |-> "", call |-> NoCall, res |-> "none", emails |-> <<>>, target |-> NoTarget,
             ncmd |-> 0, sent |-> NoCmd]

\* ------------------------------------------------------------ list objects
\* Python lists are objects: set_emails_cache binds a NEW list to the key while
\* a thread may still hold the old one in its local `cache`.
NumObjs == 2 * Cardinality(Sessions) + 2
ObjIds == 1..NumObjs

Range(f) == {f[k] : k \in DOMAIN f}
Put(f, k, v) == [j \in DOMAIN f \cup {k} |-> IF j = k THEN v ELSE f[j]]
Drop(f, k) == [j \in DOMAIN f \ {k} |-> f[j]]

Refs(th) == {th[t].cache : t \in DOMAIN th}
LiveObjs(c, refs) == (Range(c) \cup refs) \ {NoObj}
FreshObj(c, refs) ==
  CHOOSE i \in ObjIds : /\ i \notin LiveObjs(c, refs)
                        /\ \A j \in ObjIds : j \notin LiveObjs(c, refs) => i <= j
\* Unreferenced lists are garbage; their contents are forgotten.
Collect(h, c, refs) == [i \in ObjIds |-> IF i \in LiveObjs(c, refs) THEN h[i] ELSE <<>>]

\* The list a key resolves to, as get_emails_cache would return it.
CacheIn(c, h, k) == IF k \in DOMAIN c THEN h[c[k]] ELSE <<>>
CacheOf(k) == CacheIn(_emails_caches, heap, k)

\* ------------------------------------------------------------- persistence
\* _serialize_email_cache: None stays None, an email becomes its metadata
\* (only the uid is kept here).
_serialize_email_cache(l) == [i \in 1..Len(l) |-> l[i].uid]
\* save_emails_cache_to_disk: the file content for caches c over heap h.
save_emails_cache_to_disk(c, h) == [k \in DOMAIN c |-> _serialize_email_cache(h[c[k]])]

\* ------------------------------------------------------------------ server
\* The mail library and the IMAP server are external; a command on the shared
\* connection acts on the currently selected folder.  Any command may fail
\* (network, server rejection); a command naming a uid that is absent from the
\* selected folder either fails or completes without effect.
Outcomes == {"ok", "error"}

\* list(mailbox.fetch(...)) on the selected folder, in uid order.
Fetch(f) == [i \in 1..Cardinality(msgs[f]) |-> Email(f, SortedSeq(msgs[f])[i])]

DeleteEffect(m, f, n) == [m EXCEPT ![f] = @ \ {n}]
MoveEffect(m, nx, f, n, dest) ==
  IF n \in m[f] THEN [[m EXCEPT ![f] = @ \ {n}] EXCEPT ![dest] = @ \cup {nx[dest]}] ELSE m
MoveNext(m, nx, f, n, dest) ==
  IF n \in m[f] THEN [nx EXCEPT ![dest] = @ + 1] ELSE nx

\* ------------------------------------------------------ request context
\* chat_session_id_ctx.get() as evaluated by a tool running in worker thread t.
\* websocket_chat sets the variable in the event-loop task's context and then
\* drives the agent with loop.run_in_executor(None, get_next_chunk), which runs
\* in a pool thread with that thread's own context: the value set by the
\* coroutine is not visible there and get() yields the ContextVar default.
chat_session_id_ctx_get(t) == DefaultSession

\* get_emails_cache(k): the list bound to k, binding a new empty list if absent.
get_emails_cache(k) ==
  IF k \in DOMAIN _emails_caches
  THEN [c |-> _emails_caches, h |-> heap, id |-> _emails_caches[k]]
  ELSE LET n == FreshObj(_emails_caches, Refs(thread))
       IN [c |-> Put(_emails_caches, k, n), h |-> [heap EXCEPT ![n] = <<>>], id |-> n]

\* --------------------------------------------------- resolving an identifier
Verdict(r) == [r |-> r, index |-> 0, uid |-> PyNone, email |-> NoneEntry]
Go(i, u, e) == [r |-> "go", index |-> i, uid |-> u, email |-> e]
Least(S) == CHOOSE x \in S : \A y \in S : x <= y

\* Variant: the range check without its lower bound.
OutOfRangeNoLower(l, email_index) ==
  email_index # PyNone /\ email_index.v > Len(l)

\* `email_index is not None and (email_index < 1 or email_index > len(cache))`
OutOfRange(l, email_index) ==
  email_index # PyNone /\ (email_index.v < 1 \/ email_index.v > Len(l))

\* cache[email_index - 1]: Python list indexing, where a negative position
\* counts from the end and a position outside the list raises IndexError
\* (caught by the tools' `except Exception`).
PyPos(l, email_index) == IF email_index >= 1 THEN email_index ELSE email_index + Len(l)
HasSlot(l, email_index) == PyPos(l, email_index) \in 1..Len(l)
PySlot(l, email_index) == l[PyPos(l, email_index)]

\* Variant: `del cache[email_index - 1]`, which shifts the later entries down.
TombstoneByRemoval(l, email_index) ==
  SubSeq(l, 1, PyPos(l, email_index) - 1) \o SubSeq(l, PyPos(l, email_index) + 1, Len(l))

\* cache[email_index - 1] = None
Tombstone(l, email_index) == [l EXCEPT ![PyPos(l, email_index)] = NoneEntry]

\* Variant: the index branch without the `if email is None` test.
ResolveIntNoNoneTest(l, email_index, email_uid) ==
  IF email_index # PyNone THEN
    IF ~HasSlot(l, email_index.v) THEN Verdict("failed")
    ELSE Go(email_index.v, PySlot(l, email_index.v).uid, PySlot(l, email_index.v))
  ELSE IF email_uid # PyNone THEN
    IF ~py_int_ok(email_uid) THEN Verdict("invalid_uid")
    ELSE LET hits == {i \in 1..Len(l) : ~IsNone(l[i]) /\ l[i].uid = py_int(email_uid)}
         IN IF hits = {} THEN Verdict("not_found")
            ELSE Go(Least(hits), email_uid, l[Least(hits)])
  ELSE Verdict("need_id")

\* delete_email / move_email: by index, else by uid converted with int().
ResolveInt(l, email_index, email_uid) ==
  IF email_index # PyNone THEN
    IF ~HasSlot(l, email_index.v) THEN Verdict("failed")
    ELSE IF IsNone(PySlot(l, email_index.v)) THEN Verdict("already_deleted")
    ELSE Go(email_index.v, PySlot(l, email_index.v).uid, PySlot(l, email_index.v))
  ELSE IF email_uid # PyNone THEN
    IF ~py_int_ok(email_uid) THEN Verdict("invalid_uid")
    ELSE LET hits == {i \in 1..Len(l) : ~IsNone(l[i]) /\ l[i].uid = py_int(email_uid)}
         IN IF hits = {} THEN Verdict("not_found")
            ELSE Go(Least(hits), email_uid, l[Least(hits)])
  ELSE Verdict("need_id")

\* flag_email / download_attachments: by index, else by uid compared as given.
ResolveRaw(l, email_index, email_uid) ==
  IF email_index # PyNone THEN
    IF ~HasSlot(l, email_index.v) THEN Verdict("failed")
    ELSE IF IsNone(PySlot(l, email_index.v)) THEN Verdict("already_deleted")
    ELSE Go(email_index.v, PySlot(l, email_index.v).uid, PySlot(l, email_index.v))
  ELSE IF email_uid # PyNone THEN
    LET hits == {i \in 1..Len(l) : ~IsNone(l[i]) /\ l[i].uid = email_uid}
    IN IF hits = {} THEN Verdict("not_found")
       ELSE Go(Least(hits), email_uid, l[Least(hits)])
  ELSE Verdict("need_id")

\* ------------------------------------------------------- sender and filters
\* A From header is a string: a sequence of characters.  "A" stands for any
\* character that is neither white space nor one of " < > @.
FromChars == {"A", " ", "\"", "<", ">", "@"}
MaxFromLen == 5
FromArgs == UNION {[1..n -> FromChars] : n \in 0..MaxFromLen}
\* 'unknown@example.com'
UnknownSender == << "unknown@example.com" >>
NoSender == [raw |-> <<>>, sender_email |-> <<>>, sender_name |-> <<>>,
             from |-> <<>>, fromName |-> <<>>, done |-> FALSE]

\* The arguments of a read_emails call that filters, and what it fetched.
NoListed == [unread_only |-> FALSE, from_ |-> NoList, start_date |-> PyNone,
             end_date |-> PyNone, num_emails |-> PyNone, res |-> "none", uids |-> <<>>]

\* ------------------------------------------------------------ initial state
\* After startup: init_email either logged in (login selects INBOX) or left
\* mailbox = None; no cache file exists yet.
InitMsgs == [f \in Selectable |-> IF f = "INBOX" THEN {1, 2} ELSE {1}]

Init ==
  /\ mailbox \in BOOLEAN
  /\ uidIsInt \in BOOLEAN
  /\ msgs = InitMsgs
  /\ uidNext = [f \in Selectable |-> 3]
  /\ selected = IF mailbox THEN "INBOX" ELSE NoFolder
  /\ _emails_caches = [k \in {} |-> NoObj]
  /\ disk = [k \in {} |-> <<>>]
  /\ heap = [i \in ObjIds |-> <<>>]
  /\ thread = [t \in Sessions |-> IdleThread]
  /\ last = NoResult
  /\ lock = "free"
  /\ upc = [u \in UiTasks |-> "idle"]
  /\ ufolder = [u \in UiTasks |-> NoFolder]
  /\ _emails_ui_cache = [f \in {} |-> <<>>]
  /\ agent_instances = {}
  /\ websocket = NoWebsocket
  /\ imap_sessions = IF mailbox THEN {"startup"} ELSE {}
  /\ handle = IF mailbox THEN "startup" ELSE NoSession
  /\ request = [r \in ConnTasks \cup Endpoints |-> NoRequest]
  /\ address_book_data = TwoPeople
  /\ address_book_json = address_book_data
  /\ reply = NoReply
  /\ assigned = 0
  /\ formatted_email = NoSender
  /\ listed = NoListed
  /\ _folder_unread_counts = [f \in {} |-> 0]
  /\ isUnread = [f \in {} |-> <<>>]
  /\ _waiters = <<>>
  /\ active_connections = [k \in {} |-> 0]
  /\ connections = [w \in WebSockets |-> NoConnection]
  /\ startup = NotStarted
  /\ smtp_client = FALSE
  /\ agent_initialized = FALSE
  /\ agent_succeeded = FALSE
  /\ health = NoHealth
  /\ extracted = NotExtracted
  /\ calls = 0


\* ------------------------------------------------------------ tool calls
\* Arguments the agent may pass.  email_uid is declared Optional[str].
IndexArgs == {PyNone} \cup {PyInt(i) : i \in 0..MaxIndex}
IdArgs == {<<i, PyNone>> : i \in IndexArgs} \cup {<<PyNone, PyStr(1)>>, <<PyInt(1), PyStr(2)>>}
DeleteArgs == IdArgs \cup {<<PyNone, NotANumber>>}
FlagArgs == {"seen", "bogus"}
\* str.lower() on the flag types the agent passes and on the folder names
\* the server lists
lower(s) ==
  CASE s = "Read" -> "read"
    [] s = "SEEN" -> "seen"
    [] s = "Important" -> "important"
    [] s = "DRAFT" -> "draft"
    [] s = "INBOX" -> "inbox"
    [] s = "Sent" -> "sent"
    [] s = "Sent Items" -> "sent items"
    [] s = "Trash" -> "trash"
    [] s = "Custom" -> "custom"
    [] s = "Notes[1" -> "notes[1"
    [] s = "[Gmail]" -> "[gmail]"
    [] s = "[Gmail]/All Mail" -> "[gmail]/all mail"
    [] s = "[Gmail]/Archive" -> "[gmail]/archive"
    [] s = "[Gmail]/Trash" -> "[gmail]/trash"
    [] OTHER -> s
\* the if/elif chain mapping flag_type to the IMAP flag name (mutant first)
imap_flag_of_starred_as_seen(flag_type_lower) ==
  IF flag_type_lower \in {"seen", "read", "starred"} THEN SEEN
  ELSE IF flag_type_lower \in {"flagged", "important"} THEN FLAGGED
  ELSE IF flag_type_lower = "answered" THEN ANSWERED
  ELSE IF flag_type_lower = "draft" THEN DRAFT
  ELSE NoFlag
imap_flag_of(flag_type_lower) ==
  IF flag_type_lower \in {"seen", "read"} THEN SEEN
  ELSE IF flag_type_lower \in {"flagged", "important", "starred"} THEN FLAGGED
  ELSE IF flag_type_lower = "answered" THEN ANSWERED
  ELSE IF flag_type_lower = "draft" THEN DRAFT
  ELSE NoFlag
IsFlagType(ft) == imap_flag_of(lower(ft)) # NoFlag
\* start_date arguments: absent, well formed, malformed;
\* datetime.strptime(start_date, '%Y-%m-%d') raises ValueError on the last
MalformedDate == "2024/01/15"
DateArgs == {"", "2024-01-15", MalformedDate}
strptime_ok(d) == d = "2024-01-15"
DestArgs == {NoFolder, "Trash", "Nope"}
\* Each identifier with the valid destination / flag type, and the invalid
\* destinations / flag type with index 1.
ByIndex1 == << PyInt(1), PyNone >>
MoveArgs == {m \in IdArgs \X DestArgs : m[2] = "Trash" \/ m[1] = ByIndex1}
FlagCallArgs == {m \in IdArgs \X FlagArgs : m[2] = "seen" \/ m[1] = ByIndex1}

\* what no tool and no UI fetch changes
connVars == << imap_sessions, handle, request >>
bookVars == << address_book_data, address_book_json, reply, assigned >>
gateVars == << _folder_unread_counts, isUnread, _waiters >>
registryVars == << active_connections, connections >>
startupVars == << startup, smtp_client, agent_initialized, agent_succeeded, health >>
pureVars == << formatted_email, listed, gateVars, registryVars, startupVars, extracted >>
staticVars == << mailbox, uidIsInt, agent_instances, websocket, connVars, bookVars, pureVars >>

Call(op, i, u, f, ft) ==
  [NoCall EXCEPT !.op = op, !.email_index = i, !.email_uid = u, !.folder = f, !.flag_type = ft]
NewFrame(c) == [IdleThread EXCEPT !.call = c]
Aim(r) == [index |-> r.index, uid |-> r.uid, email |-> r.email]

\* The agent runtime invokes a tool in worker thread t.
Begin(t) ==
  /\ thread[t].pc = "idle"
  /\ calls < MaxCalls
  /\ calls' = calls + 1

\* The tool returns r (or raises, r = "raised") from frame fr; its locals are
\* dropped and the result goes to the agent runtime.
Return(t, fr, r, c, h) ==
  /\ thread' = [thread EXCEPT ![t] = IdleThread]
  /\ last' = [t |-> t, call |-> fr.call, res |-> r, emails |-> fr.emails,
              target |-> fr.target, ncmd |-> fr.ncmd, sent |-> fr.sent]
  /\ _emails_caches' = c
  /\ heap' = Collect(h, c, Refs(thread'))

\* The tool goes on with frame fr.
Continue(t, fr, c, h) ==
  /\ thread' = [thread EXCEPT ![t] = fr]
  /\ last' = NoResult
  /\ _emails_caches' = c
  /\ heap' = Collect(h, c, Refs(thread'))

Cmd(fr) == [fr EXCEPT !.ncmd = @ + 1]
At(fr, l) == [fr EXCEPT !.pc = l]

\* ---- read_emails
ResolveFolder(name) ==
  LET n0 == IF name = NoFolder THEN FolderList[1].name ELSE name
  IN IF n0 \notin FolderNames /\ (GmailPrefix \o n0) \in FolderNames
     THEN GmailPrefix \o n0 ELSE n0

\* all_folders = [f.name for f in mailbox.folder.list()]; default and alias;
\* mailbox.folder.set(folder_name); parse of start_date (end_date is parsed
\* the same way)
ReadSelect(t, fname, start_date) ==
  /\ Begin(t)
  /\ UNCHANGED << staticVars, msgs, uidNext, disk, uiVars >>
  /\ LET fr0 == NewFrame([Call("read_emails", PyNone, PyNone, fname, "")
                            EXCEPT !.start_date = start_date])
         fr == Cmd(Cmd([fr0 EXCEPT !.call.folder = ResolveFolder(fname)]))
     IN IF ~mailbox
        THEN /\ UNCHANGED selected
             /\ Return(t, fr0, "raised", _emails_caches, heap)
        ELSE IF fr.call.folder \in Selectable
        THEN \E out \in Outcomes :
               IF out = "ok"
               THEN /\ selected' = fr.call.folder
                    /\ IF start_date # "" /\ ~strptime_ok(start_date)
                       THEN Return(t, fr, "raised", _emails_caches, heap)
                       ELSE Continue(t, At(fr, "r_fetch"), _emails_caches, heap)
               ELSE /\ UNCHANGED selected
                    /\ Return(t, fr, "raised", _emails_caches, heap)
        ELSE /\ selected' = NoFolder
             /\ Return(t, fr, "raised", _emails_caches, heap)

\* emails = list(mailbox.fetch(...))
ReadFetch(t) ==
  /\ thread[t].pc = "r_fetch"
  /\ UNCHANGED << staticVars, serverVars, disk, uiVars, calls >>
  /\ LET fr == Cmd(thread[t])
     IN \E out \in Outcomes :
          IF out = "ok" /\ selected # NoFolder
          THEN Continue(t, At([fr EXCEPT !.emails = Fetch(selected)], "r_clear"), _emails_caches, heap)
          ELSE Return(t, fr, "raised", _emails_caches, heap)

\* set_emails_cache(session_id, []): bind a new empty list, save to disk
set_emails_cache(t) ==
  /\ thread[t].pc = "r_clear"
  /\ UNCHANGED << staticVars, serverVars, uiVars, calls >>
  /\ LET k == chat_session_id_ctx_get(t)
         n == FreshObj(_emails_caches, Refs(thread))
         c2 == Put(_emails_caches, k, n)
         h2 == [heap EXCEPT ![n] = <<>>]
     IN /\ disk' = save_emails_cache_to_disk(c2, h2)
        /\ Continue(t, At(thread[t], "r_get"), c2, h2)

\* cache = get_emails_cache(session_id); an empty result returns right away
ReadGet(t) ==
  /\ thread[t].pc = "r_get"
  /\ UNCHANGED << staticVars, serverVars, disk, uiVars, calls >>
  /\ LET g == get_emails_cache(chat_session_id_ctx_get(t))
         fr == thread[t]
     IN IF fr.emails = <<>>
        THEN Return(t, fr, "no_emails", g.c, g.h)
        ELSE Continue(t, At([fr EXCEPT !.cache = g.id, !.target.index = 1], "r_append"), g.c, g.h)

\* one iteration of `for idx, email in enumerate(emails, 1)`: cache.append(email),
\* then the text of the email is put together from the attributes the mail
\* library decodes (addresses, date, body, attachment payloads); that may
\* raise, and nothing in the loop catches it
ReadAppend(t) ==
  /\ thread[t].pc = "r_append"
  /\ UNCHANGED << staticVars, serverVars, disk, uiVars, calls >>
  /\ LET fr == thread[t]
         i == fr.target.index
         h2 == [heap EXCEPT ![fr.cache] = Append(@, fr.emails[i])]
     IN \E out \in Outcomes :
          IF out = "error"
          THEN Return(t, fr, "raised", _emails_caches, h2)
          ELSE IF i = Len(fr.emails)
          THEN Return(t, fr, "ok", _emails_caches, h2)
          ELSE Continue(t, [fr EXCEPT !.target.index = i + 1], _emails_caches, h2)

read_emails(t) ==
  \/ \E f \in FolderArgs \cup {NoFolder} : ReadSelect(t, f, "")
  \/ ReadSelect(t, NoFolder, MalformedDate)
  \/ ReadFetch(t)
  \/ set_emails_cache(t) \/ ReadGet(t) \/ ReadAppend(t)

\* ---- delete_email
\* up to `mailbox.delete(email_uid)`: connection check, cache lookup, range
\* check, resolution of the identifier
DeleteResolve(t, email_index, email_uid) ==
  /\ Begin(t)
  /\ UNCHANGED << staticVars, serverVars, disk, uiVars >>
  /\ LET fr == NewFrame(Call("delete_email", email_index, email_uid, NoFolder, ""))
     IN IF ~mailbox
        THEN Return(t, fr, "not_connected", _emails_caches, heap)
        ELSE LET g == get_emails_cache(chat_session_id_ctx_get(t))
                 l == g.h[g.id]
                 r == IF OutOfRange(l, email_index) THEN Verdict("invalid_index")
                      ELSE ResolveInt(l, email_index, email_uid)
                 fr2 == [fr EXCEPT !.target = Aim(r)]
             IN IF r.r = "go"
                THEN Continue(t, At([fr2 EXCEPT !.cache = g.id], "d_cmd"), g.c, g.h)
                ELSE Return(t, fr2, r.r, g.c, g.h)

\* mailbox.delete(email_uid); cache[email_index - 1] = None
DeleteCmd(t) ==
  /\ thread[t].pc = "d_cmd"
  /\ UNCHANGED << staticVars, uidNext, selected, disk, uiVars, calls >>
  /\ LET fr == Cmd(thread[t])
     IN \E out \in Outcomes :
          IF out = "ok" /\ selected # NoFolder
          THEN /\ msgs' = DeleteEffect(msgs, selected, fr.target.uid.v)
               /\ Return(t, fr, "ok", _emails_caches,
                         [heap EXCEPT ![fr.cache] = Tombstone(@, fr.target.index)])
          ELSE /\ UNCHANGED msgs
               /\ Return(t, fr, "failed", _emails_caches, heap)

delete_email(t) ==
  \/ \E a \in DeleteArgs : DeleteResolve(t, a[1], a[2])
  \/ DeleteCmd(t)

\* ---- move_email
\* connection check, cache lookup, range check, destination check
MoveCheck(t, email_index, email_uid, destination_folder) ==
  /\ Begin(t)
  /\ UNCHANGED << staticVars, serverVars, disk, uiVars >>
  /\ LET fr == NewFrame(Call("move_email", email_index, email_uid, destination_folder, ""))
     IN IF ~mailbox
        THEN Return(t, fr, "not_connected", _emails_caches, heap)
        ELSE LET g == get_emails_cache(chat_session_id_ctx_get(t))
             IN IF OutOfRange(g.h[g.id], email_index)
                THEN Return(t, fr, "invalid_index", g.c, g.h)
                ELSE IF destination_folder = NoFolder
                THEN Return(t, fr, "no_dest", g.c, g.h)
                ELSE Continue(t, At([fr EXCEPT !.cache = g.id], "m_list"), g.c, g.h)

\* all_folders = ...folder.list(); destination aliasing; resolution
MoveList(t) ==
  /\ thread[t].pc = "m_list"
  /\ UNCHANGED << staticVars, serverVars, disk, uiVars, calls >>
  /\ \E out \in Outcomes :
       LET fr == Cmd(thread[t])
           d == fr.call.folder
           r == ResolveInt(heap[fr.cache], fr.call.email_index, fr.call.email_uid)
           fr2 == [fr EXCEPT !.call.folder = IF d \notin FolderNames THEN GmailPrefix \o d ELSE d,
                             !.target = Aim(r)]
       IN IF out = "error"
          THEN Return(t, fr, "failed", _emails_caches, heap)
          ELSE IF d \notin FolderNames /\ (GmailPrefix \o d) \notin FolderNames
          THEN Return(t, fr, "folder_not_found", _emails_caches, heap)
          ELSE IF r.r = "go"
          THEN Continue(t, At(fr2, "m_cmd"), _emails_caches, heap)
          ELSE Return(t, fr2, r.r, _emails_caches, heap)

\* mailbox.move(email_uid, destination_folder); cache[email_index - 1] = None
MoveCmd(t) ==
  /\ thread[t].pc = "m_cmd"
  /\ UNCHANGED << staticVars, selected, disk, uiVars, calls >>
  /\ LET fr == Cmd(thread[t])
     IN \E out \in Outcomes :
          IF out = "ok" /\ selected # NoFolder /\ fr.call.folder \in Selectable
          THEN /\ msgs' = MoveEffect(msgs, uidNext, selected, fr.target.uid.v, fr.call.folder)
               /\ uidNext' = MoveNext(msgs, uidNext, selected, fr.target.uid.v, fr.call.folder)
               /\ Return(t, fr, "ok", _emails_caches,
                         [heap EXCEPT ![fr.cache] = Tombstone(@, fr.target.index)])
          ELSE /\ UNCHANGED << msgs, uidNext >>
               /\ Return(t, fr, "failed", _emails_caches, heap)

move_email(t) ==
  \/ \E m \in MoveArgs : MoveCheck(t, m[1][1], m[1][2], m[2])
  \/ MoveList(t)
  \/ MoveCmd(t)

\* ---- flag_email
FlagResolve(t, email_index, email_uid, flag_type, value) ==
  /\ Begin(t)
  /\ UNCHANGED << staticVars, serverVars, disk, uiVars >>
  /\ LET fr == NewFrame([Call("flag_email", email_index, email_uid, NoFolder, flag_type)
                           EXCEPT !.value = value])
     IN IF ~mailbox
        THEN Return(t, fr, "not_connected", _emails_caches, heap)
        ELSE LET g == get_emails_cache(chat_session_id_ctx_get(t))
                 l == g.h[g.id]
                 r == IF OutOfRange(l, email_index) THEN Verdict("invalid_index")
                      ELSE ResolveRaw(l, email_index, email_uid)
                 fr2 == [fr EXCEPT !.target = Aim(r)]
             IN IF r.r # "go" THEN Return(t, fr2, r.r, g.c, g.h)
                ELSE IF ~IsFlagType(flag_type) THEN Return(t, fr2, "invalid_flag", g.c, g.h)
                ELSE Continue(t, At([fr2 EXCEPT !.cache = g.id,
                                                 !.imap_flag = imap_flag_of(lower(flag_type))],
                                    "f_cmd"), g.c, g.h)

\* mailbox.flag.set([email_uid], imap_flag, value)
FlagCmd(t) ==
  /\ thread[t].pc = "f_cmd"
  /\ UNCHANGED << staticVars, serverVars, disk, uiVars, calls >>
  /\ LET fr0 == thread[t]
         fr == [Cmd(fr0) EXCEPT !.sent = [uid |-> fr0.target.uid, flag |-> fr0.imap_flag,
                                          value |-> fr0.call.value]]
     IN \E out \in Outcomes :
          Return(t, fr, IF out = "ok" /\ selected # NoFolder THEN "ok" ELSE "failed",
                 _emails_caches, heap)

flag_email(t) ==
  \/ \E m \in FlagCallArgs : FlagResolve(t, m[1][1], m[1][2], m[2], TRUE)
  \/ FlagCmd(t)

\* ---- download_attachments (reads the cached email object only)
download_attachments(t) ==
  \E a \in IdArgs :
    /\ Begin(t)
    /\ UNCHANGED << staticVars, serverVars, disk, uiVars >>
    /\ LET fr == NewFrame(Call("download_attachments", a[1], a[2], NoFolder, ""))
       IN IF ~mailbox
          THEN Return(t, fr, "not_connected", _emails_caches, heap)
          ELSE LET g == get_emails_cache(chat_session_id_ctx_get(t))
                   l == g.h[g.id]
                   r == IF OutOfRange(l, a[1]) THEN Verdict("invalid_index")
                        ELSE ResolveRaw(l, a[1], a[2])
               IN Return(t, [fr EXCEPT !.target = Aim(r)],
                         IF r.r = "go" THEN "ok" ELSE r.r, g.c, g.h)

\* ---- list_folders
list_folders(t) ==
  /\ Begin(t)
  /\ UNCHANGED << staticVars, serverVars, disk, uiVars >>
  /\ LET fr == NewFrame(Call("list_folders", PyNone, PyNone, NoFolder, ""))
     IN IF ~mailbox
        THEN Return(t, fr, "not_connected", _emails_caches, heap)
        ELSE \E out \in Outcomes :
               Return(t, Cmd(fr), IF out = "ok" THEN "ok" ELSE "failed", _emails_caches, heap)

\* ---- email_dashboard
\* index of the first selectable folder at or after position i, 0 if none
NextSelectable(i) ==
  LET S == {j \in i..Len(FolderList) : ~FolderList[j].noselect}
  IN IF S = {} THEN 0 ELSE Least(S)

\* folders = mailbox.folder.list()
DashList(t) ==
  /\ Begin(t)
  /\ UNCHANGED << staticVars, serverVars, disk, uiVars >>
  /\ LET fr == NewFrame(Call("email_dashboard", PyNone, PyNone, NoFolder, ""))
     IN IF ~mailbox
        THEN Return(t, fr, "raised", _emails_caches, heap)
        ELSE \E out \in Outcomes :
               IF out = "error"
               THEN Return(t, Cmd(fr), "raised", _emails_caches, heap)
               ELSE IF NextSelectable(1) = 0
               THEN Return(t, Cmd(fr), "ok", _emails_caches, heap)
               ELSE Continue(t, At(Cmd([fr EXCEPT !.target.index = NextSelectable(1)]), "dash_select"),
                             _emails_caches, heap)

\* mailbox.folder.set(folder_name) for the next folder without \Noselect
DashSelect(t) ==
  /\ thread[t].pc = "dash_select"
  /\ UNCHANGED << staticVars, msgs, uidNext, disk, uiVars, calls >>
  /\ LET fr == Cmd(thread[t])
     IN \E out \in Outcomes :
          IF out = "ok"
          THEN /\ selected' = FolderList[fr.target.index].name
               /\ Continue(t, At(fr, "dash_fetch"), _emails_caches, heap)
          ELSE /\ UNCHANGED selected
               /\ Return(t, fr, "raised", _emails_caches, heap)

\* the ten counting fetches of one folder (mark_seen=False: no server change)
DashFetch(t) ==
  /\ thread[t].pc = "dash_fetch"
  /\ UNCHANGED << staticVars, serverVars, disk, uiVars, calls >>
  /\ LET fr == Cmd(thread[t])
         j == NextSelectable(fr.target.index + 1)
     IN \E out \in Outcomes :
          IF out = "error" \/ selected = NoFolder
          THEN Return(t, fr, "raised", _emails_caches, heap)
          ELSE IF j = 0
          THEN Return(t, fr, "ok", _emails_caches, heap)
          ELSE Continue(t, At([fr EXCEPT !.target.index = j], "dash_select"), _emails_caches, heap)

email_dashboard(t) == DashList(t) \/ DashSelect(t) \/ DashFetch(t)

\* -------------------------------------------------- UI fetch (event loop)
\* Coroutines interleave at awaits only; each `await run_in_executor` of an
\* IMAP call is one step.  `async with _imap_lock` is entered when the lock
\* is free, together with the first IMAP call made under it.
toolVars == << thread, heap, _emails_caches, disk >>

\* init_email() called lazily by GET /api/emails, GET /api/emails/folders and
\* /ws/emails when mailbox is None; login selects INBOX.
init_email ==
  /\ ~mailbox
  /\ mailbox' \in BOOLEAN
  /\ selected' = IF mailbox' THEN "INBOX" ELSE selected
  /\ imap_sessions' = IF mailbox' THEN {"startup"} ELSE {}
  /\ handle' = IF mailbox' THEN "startup" ELSE NoSession
  /\ last' = NoResult
  /\ UNCHANGED << uidIsInt, agent_instances, request, bookVars, pureVars, msgs, uidNext, toolVars, uiVars >>

\* fetch_folders_async: list under the lock
fetch_folders_async(u) ==
  /\ upc[u] = "idle"
  /\ mailbox
  /\ lock = "free"
  /\ calls < MaxCalls
  /\ calls' = calls + 1
  /\ last' = NoResult
  /\ UNCHANGED << staticVars, serverVars, toolVars, uiVars >>

\* fetch_emails_for_folder_async: take the lock, mailbox.folder.set(folder_name)
\* (out: the server's answer to the command)
switch_folder(u, folder_name, out) ==
  /\ upc[u] = "idle"
  /\ mailbox
  /\ lock = "free"
  /\ last' = NoResult
  /\ UNCHANGED << msgs, uidNext, toolVars, _emails_ui_cache >>
  /\ IF folder_name \in Selectable
     THEN IF out = "ok"
          THEN /\ selected' = folder_name
               /\ lock' = u
               /\ upc' = [upc EXCEPT ![u] = "fetch"]
               /\ ufolder' = [ufolder EXCEPT ![u] = folder_name]
          ELSE UNCHANGED << selected, lock, upc, ufolder >>
     ELSE /\ selected' = NoFolder
          /\ UNCHANGED << lock, upc, ufolder >>

\* uid = str(email.uid) of each fetched email
FormatUids(l) == [i \in 1..Len(l) |-> PyStr(l[i].uid.v)]

\* fetch_from_imap, release of the lock, formatting, _save_emails_to_cache
fetch_from_imap(u, out) ==
  /\ upc[u] = "fetch"
  /\ lock' = "free"
  /\ upc' = [upc EXCEPT ![u] = "idle"]
  /\ ufolder' = [ufolder EXCEPT ![u] = NoFolder]
  /\ last' = NoResult
  /\ UNCHANGED << serverVars, toolVars >>
  /\ IF out = "ok" /\ selected # NoFolder
     THEN _emails_ui_cache' = Put(_emails_ui_cache, ufolder[u], FormatUids(Fetch(selected)))
     ELSE UNCHANGED _emails_ui_cache

\* DELETE /api/emails/{email_uid}: mailbox.delete([email_uid])
delete_email_endpoint(email_uid) ==
  /\ mailbox
  /\ py_int_ok(email_uid)
  /\ calls < MaxCalls
  /\ calls' = calls + 1
  /\ last' = NoResult
  /\ UNCHANGED << staticVars, uidNext, selected, toolVars, uiVars >>
  /\ \E out \in Outcomes :
       IF out = "ok" /\ selected # NoFolder
       THEN msgs' = DeleteEffect(msgs, selected, email_uid.v)
       ELSE UNCHANGED msgs

\* Another mail client of the same account expunges a message.
OtherClientDelete(f, n) ==
  /\ n \in msgs[f]
  /\ calls < MaxCalls
  /\ calls' = calls + 1
  /\ msgs' = DeleteEffect(msgs, f, n)
  /\ last' = NoResult
  /\ UNCHANGED << staticVars, uidNext, selected, toolVars, uiVars >>

\* A fetch made for GET /api/emails, or for /ws/emails with its messages
\* left out.
Ui(u) ==
  \/ fetch_folders_async(u)
  \/ \E f \in Selectable \cup {"Nope"}, out \in Outcomes :
       /\ switch_folder(u, f, out)
       /\ calls < MaxCalls
       /\ calls' = calls + 1
       /\ UNCHANGED staticVars
  \/ \E out \in Outcomes : fetch_from_imap(u, out) /\ UNCHANGED << staticVars, calls >>

\* The agent runtime takes the tool result (the ToolMessage chunk that
\* websocket_chat forwards as `tool_result`).
Deliver ==
  /\ last # NoResult
  /\ last' = NoResult
  /\ UNCHANGED << staticVars, serverVars, cacheVars, thread, uiVars, calls >>

Tool(t) ==
  \/ read_emails(t) \/ delete_email(t) \/ move_email(t) \/ flag_email(t)
  \/ download_attachments(t) \/ list_folders(t) \/ email_dashboard(t)

Busy == last # NoResult

Next ==
  \/ Deliver
  \/ ~Busy /\ \E t \in Sessions : Tool(t)
  \/ ~Busy /\ \E u \in UiTasks : Ui(u)
  \/ ~Busy /\ init_email /\ calls < MaxCalls /\ calls' = calls + 1 /\ UNCHANGED websocket
  \/ ~Busy /\ \E x \in {PyStr(1), PyStr(2)} : delete_email_endpoint(x)
  \/ ~Busy /\ \E f \in Selectable, n \in 1..2 : OtherClientDelete(f, n)

Spec == Init /\ [][Next]_vars

\* ------------------------------------------------------ /ws/emails stream
MaxFolders == 3        \* folders in a listing drawn for the ordering

\* '[' in name_lower / ']' in name_lower, on the names below
has_open_bracket(name_lower) ==
  name_lower \in {"[gmail]", "[gmail]/all mail", "[gmail]/archive", "[gmail]/trash", "notes[1"}
has_close_bracket(name_lower) ==
  name_lower \in {"[gmail]", "[gmail]/all mail", "[gmail]/archive", "[gmail]/trash"}

\* the dict priority_folders
priority_folders(name_lower) ==
  CASE name_lower \in {"sent", "sent items", "sent mail", "[gmail]/sent"} -> 10
    [] name_lower \in {"drafts", "draft", "[gmail]/drafts"} -> 20
    [] name_lower \in {"junk", "spam", "bulk mail", "[gmail]/spam"} -> 30
    [] name_lower \in {"trash", "deleted", "deleted items", "deleted messages", "bin",
                       "[gmail]/trash"} -> 40
    [] name_lower \in {"archive", "all mail", "[gmail]/all mail"} -> 50
    [] name_lower \in {"starred", "flagged", "[gmail]/starred"} -> 60
    [] name_lower \in {"important", "[gmail]/important"} -> 70
    [] OTHER -> -1

\* (mutant: the namespace test made before the table lookup)
get_folder_priority_namespace_first(folder_name) ==
  LET name_lower == lower(folder_name)
  IN IF name_lower = "inbox" THEN 0
     ELSE IF has_open_bracket(name_lower) /\ has_close_bracket(name_lower) THEN 100
     ELSE IF priority_folders(name_lower) # -1 THEN priority_folders(name_lower)
     ELSE 200

get_folder_priority(folder_name) ==
  LET name_lower == lower(folder_name)
  IN IF name_lower = "inbox" THEN 0
     ELSE IF priority_folders(name_lower) # -1 THEN priority_folders(name_lower)
     ELSE IF has_open_bracket(name_lower) /\ has_close_bracket(name_lower) THEN 100
     ELSE 200

\* sorted(folders, key=lambda f: get_folder_priority(f['name'])): the
\* leftmost folder of least priority first, then the rest likewise (stable)
RECURSIVE sorted(_)
sorted(folders) ==
  IF folders = <<>> THEN <<>>
  ELSE LET least == Least({get_folder_priority(folders[j].name) : j \in 1..Len(folders)})
           i == Least({j \in 1..Len(folders) : get_folder_priority(folders[j].name) = least})
       IN << folders[i] >> \o sorted(SubSeq(folders, 1, i - 1) \o SubSeq(folders, i + 1, Len(folders)))

\* fetch_folders_async: the listed folders that do not carry \Noselect
RECURSIVE folder_list(_)
folder_list(folders) ==
  IF folders = <<>> THEN <<>>
  ELSE (IF folders[1].noselect THEN <<>> ELSE << folders[1] >>) \o folder_list(Tail(folders))

\* Folder listings a server may return: up to MaxFolders distinct names, any
\* of them \Noselect, and the five-folder listing of a Gmail-like account.
FolderNameArgs ==
  {"INBOX", "Sent", "Custom", "[Gmail]/All Mail", "Trash", "Sent Items", "[Gmail]/Archive",
   "Notes[1", "[Gmail]"}
FiveFolders ==
  << [name |-> "INBOX", noselect |-> FALSE], [name |-> "Sent", noselect |-> FALSE],
     [name |-> "Custom", noselect |-> FALSE], [name |-> "[Gmail]/All Mail", noselect |-> FALSE],
     [name |-> "Trash", noselect |-> FALSE] >>
Listings ==
  {FiveFolders} \cup
  UNION {{l \in [1..n -> [name : FolderNameArgs, noselect : BOOLEAN]] :
            \A i, j \in 1..n : i # j => l[i].name # l[j].name} : n \in 0..MaxFolders}

\* await websocket.send_json({"type": type, "folder": folder, ...})
send_json(w, type, folder) == [w EXCEPT !.out = Append(@, [type |-> type, folder |-> folder])]

\* the folder the loop is at
folder_name(w) == w.ordered_folders[w.idx].name

\* end of one loop iteration: folder_loaded sent / the except branch (mutant
\* first: the exception leaves the loop)
FolderFailedEndsLoop(w) ==
  [send_json(w, "error", folder_name(w)) EXCEPT !.pc = "closed"]
FolderFailed(w) ==
  [send_json(w, "error", folder_name(w)) EXCEPT !.pc = "loop", !.idx = @ + 1]
FolderLoaded(w) ==
  [send_json(w, "folder_loaded", folder_name(w)) EXCEPT !.pc = "loop", !.idx = @ + 1]

wsFrame == << uidIsInt, agent_instances, calls, connVars, bookVars, pureVars >>

\* websocket.accept(); the first status message
WsAccept ==
  /\ websocket.pc = "none"
  /\ websocket' = [send_json(websocket, "status", NoFolder)
                     EXCEPT !.pc = IF mailbox THEN "list" ELSE "init"]
  /\ UNCHANGED << mailbox, wsFrame, serverVars, toolVars, last, uiVars >>

\* run_in_executor(None, init_email); status "Fetching folder list..."
WsInit ==
  /\ websocket.pc = "init"
  /\ IF mailbox
     THEN UNCHANGED << mailbox, wsFrame, serverVars, toolVars, last, uiVars >>
     ELSE init_email
  /\ websocket' = [send_json(websocket, "status", NoFolder) EXCEPT !.pc = "list"]
  /\ UNCHANGED calls

\* folders = await fetch_folders_async(mailbox), where the server lists
\* `listing`; the folders message; ordered_folders = sorted(...).  An
\* exception goes to the outer handler.
WsFolders(listing) ==
  /\ websocket.pc = "list"
  /\ lock = "free"
  /\ UNCHANGED << mailbox, wsFrame, serverVars, toolVars, last, uiVars >>
  /\ \E out \in Outcomes :
       IF mailbox /\ out = "ok"
       THEN websocket' = [send_json(websocket, "folders", NoFolder)
                            EXCEPT !.listing = listing,
                                   !.folders = folder_list(listing),
                                   !.ordered_folders = sorted(folder_list(listing)),
                                   !.idx = 1, !.pc = "loop"]
       ELSE websocket' = [send_json(websocket, "error", NoFolder) EXCEPT !.pc = "closed"]

\* head of the for loop: folder_loading for the next folder, or complete
WsLoop ==
  /\ websocket.pc = "loop"
  /\ UNCHANGED << mailbox, wsFrame, serverVars, toolVars, last, uiVars >>
  /\ IF websocket.idx <= Len(websocket.ordered_folders)
     THEN websocket' = [send_json(websocket, "folder_loading", folder_name(websocket))
                          EXCEPT !.pc = "select"]
     ELSE websocket' = [send_json(websocket, "complete", NoFolder) EXCEPT !.pc = "open"]

\* fetch_emails_for_folder_async: lock and folder.set
WsSelect ==
  /\ websocket.pc = "select"
  /\ \E out \in Outcomes : switch_folder("ws", folder_name(websocket), out)
  /\ websocket' = IF upc'["ws"] = "fetch" THEN [websocket EXCEPT !.pc = "fetch"]
                  ELSE FolderFailed(websocket)
  /\ UNCHANGED << mailbox, wsFrame >>

\* fetch_emails_for_folder_async: fetch, release; folder_loaded or error
WsFetch ==
  /\ websocket.pc = "fetch"
  /\ \E out \in Outcomes :
       /\ fetch_from_imap("ws", out)
       /\ websocket' = IF out = "ok" /\ selected # NoFolder THEN FolderLoaded(websocket)
                       ELSE FolderFailed(websocket)
  /\ UNCHANGED << mailbox, wsFrame >>

\* after complete: {"action": "ping"} is answered with pong
WsPing ==
  /\ websocket.pc = "open"
  /\ calls < MaxCalls
  /\ calls' = calls + 1
  /\ websocket' = send_json(websocket, "pong", NoFolder)
  /\ UNCHANGED << mailbox, uidIsInt, agent_instances, connVars, bookVars, pureVars, serverVars, toolVars, last, uiVars >>

\* after complete: {"action": "refresh"}: a status message, then the handler
\* returns and the connection is closed
WsRefresh ==
  /\ websocket.pc = "open"
  /\ websocket' = [send_json(websocket, "status", NoFolder) EXCEPT !.pc = "closed"]
  /\ UNCHANGED << mailbox, wsFrame, serverVars, toolVars, last, uiVars >>

\* The stream against the account's folders, with GET /api/emails fetches
\* going on beside it.
websocket_emails ==
  \/ WsAccept \/ WsInit \/ WsFolders(FolderList)
  \/ WsLoop \/ WsSelect \/ WsFetch
  \/ WsPing \/ WsRefresh

NextStream ==
  \/ websocket_emails
  \/ Ui("api")

SpecStream == Init /\ [][NextStream]_vars

\* The head of the stream, for any folder listing.
NextPriority ==
  \/ WsAccept \/ WsInit
  \/ websocket.pc = "list" /\ \E listing \in Listings : WsFolders(listing)

SpecPriority == Init /\ [][NextPriority]_vars

\* ------------------------------------------------- one session's flagging
\* flag_type and value arguments in any spelling, with a valid identifier.
FlagTypeArgs ==
  {"seen", "SEEN", "read", "Read", "flagged", "important", "Important", "starred",
   "answered", "draft", "DRAFT", "unread", "bogus"}

flag_email_any(t) ==
  \/ \E a \in {ByIndex1, << PyNone, PyStr(1) >>}, ft \in FlagTypeArgs, value \in BOOLEAN :
       FlagResolve(t, a[1], a[2], ft, value)
  \/ FlagCmd(t)

NextFlags ==
  \/ Deliver
  \/ ~Busy /\ read_emails("s1")
  \/ ~Busy /\ flag_email_any("s1")

SpecFlags == Init /\ [][NextFlags]_vars

\* ------------------------------------------------------- IMAP connections

\* initialize_agent_async calls init_email unconditionally; the lazy callers
\* test `if not email_tools_module.mailbox` first.  Either hands init_email
\* to an executor thread.
InitCheck(r) ==
  /\ request[r].pc = "idle"
  /\ request' = [request EXCEPT ![r].pc =
                   IF r = "startup" \/ ~mailbox THEN "login" ELSE "done"]
  /\ UNCHANGED << mailbox, imap_sessions, handle, selected >>

\* init_email, right-hand side: MailBoxClient(...).login(email, password),
\* or the except branch
InitLogin(r) ==
  /\ request[r].pc = "login"
  /\ \E out \in Outcomes :
       IF out = "ok"
       THEN /\ imap_sessions' = imap_sessions \cup {r}
            /\ request' = [request EXCEPT ![r].pc = "assign", ![r].conn = r]
       ELSE /\ request' = [request EXCEPT ![r].pc = "assign", ![r].conn = NoSession]
            /\ UNCHANGED imap_sessions
  /\ UNCHANGED << mailbox, handle, selected >>

\* init_email, the store to the global: mailbox = <session>, or mailbox = None
InitAssign(r) ==
  /\ request[r].pc = "assign"
  /\ handle' = request[r].conn
  /\ mailbox' = (handle' # NoSession)
  /\ selected' = IF mailbox' THEN "INBOX" ELSE selected
  /\ request' = [request EXCEPT ![r].pc = "done"]
  /\ UNCHANGED imap_sessions

\* An HTTP response: status, with the count of commands the handler has sent.
Respond(q, status) == [q EXCEPT !.pc = "end", !.status = status]
Sent(q) == [q EXCEPT !.ncmd = @ + 1]

\* move_email_endpoint: int(email_uid), then a fresh MailBoxClient(...).login
MoveConnect(r, email_uid) ==
  /\ request[r].pc = "idle"
  /\ LET q == [request[r] EXCEPT !.email_uid = email_uid]
     IN IF ~py_int_ok(email_uid)
        THEN /\ request' = [request EXCEPT ![r] = Respond(q, 400)]
             /\ UNCHANGED imap_sessions
        ELSE \E out \in Outcomes :
               IF out = "ok"
               THEN /\ imap_sessions' = imap_sessions \cup {r}
                    /\ request' = [request EXCEPT ![r] = [q EXCEPT !.pc = "move", !.conn = r]]
               ELSE /\ request' = [request EXCEPT ![r] = Respond(q, 503)]
                    /\ UNCHANGED imap_sessions
  /\ UNCHANGED << mailbox, handle, selected, msgs, uidNext >>

\* move_email_endpoint: folder.list, the folder check, move on the fresh
\* session (login selected INBOX there), and the finally clause's logout
MoveLogout(r, destination_folder) ==
  /\ request[r].pc = "move"
  /\ LET q == request[r]
         target_folder == IF destination_folder \notin FolderNames
                          THEN GmailPrefix \o destination_folder ELSE destination_folder
     IN \E list \in Outcomes, out \in Outcomes :
          IF list = "error"
          THEN /\ request' = [request EXCEPT ![r] = Respond(Sent(q), 500)]
               /\ UNCHANGED << msgs, uidNext >>
          ELSE IF target_folder \notin FolderNames
          THEN /\ request' = [request EXCEPT ![r] = Respond(Sent(q), 404)]
               /\ UNCHANGED << msgs, uidNext >>
          ELSE IF out = "ok" /\ target_folder \in Selectable
          THEN /\ msgs' = MoveEffect(msgs, uidNext, "INBOX", q.email_uid.v, target_folder)
               /\ uidNext' = MoveNext(msgs, uidNext, "INBOX", q.email_uid.v, target_folder)
               /\ request' = [request EXCEPT ![r] = Respond(Sent(Sent(q)), 200)]
          ELSE /\ request' = [request EXCEPT ![r] = Respond(Sent(Sent(q)), 500)]
               /\ UNCHANGED << msgs, uidNext >>
  /\ imap_sessions' = imap_sessions \ {request[r].conn}
  /\ UNCHANGED << mailbox, handle, selected >>

connFrame == << uidIsInt, agent_instances, websocket, cacheVars, thread, last, uiVars, calls,
               bookVars, pureVars >>

InitConnection ==
  /\ Init
  /\ ~mailbox

NextConnection ==
  \/ \E r \in InitTasks : InitCheck(r) /\ UNCHANGED << connFrame, msgs, uidNext >>
  \/ \E r \in InitTasks : InitLogin(r) /\ UNCHANGED << connFrame, msgs, uidNext >>
  \/ \E r \in InitTasks : InitAssign(r) /\ UNCHANGED << connFrame, msgs, uidNext >>
  \/ MoveConnect("move_email_endpoint", PyStr(1)) /\ UNCHANGED connFrame
  \/ \E f \in {"Trash", "Nope"} : MoveLogout("move_email_endpoint", f) /\ UNCHANGED connFrame

SpecConnection == InitConnection /\ [][NextConnection]_vars

\* --------------------------------------------------------- HTTP endpoints
\* GET /api/emails/folders after its lazy init_email:
\* fetch_folders_async(email_tools_module.mailbox); any exception becomes 500
get_email_folders(r) ==
  /\ request[r].pc = "done"
  /\ lock = "free"
  /\ LET q == request[r]
     IN IF ~mailbox
        THEN request' = [request EXCEPT ![r] = Respond(q, 500)]
        ELSE \E out \in Outcomes :
               request' = [request EXCEPT ![r] =
                             Respond(Sent(q), IF out = "ok" THEN 200 ELSE 500)]
  /\ UNCHANGED << mailbox, imap_sessions, handle, serverVars, uiVars >>

\* GET /api/emails after its lazy init_email: fetch_emails_for_folder_async
\* up to mailbox.folder.set(folder)
GetEmailsSwitch(r, folder) ==
  /\ request[r].pc = "done"
  /\ LET q == request[r]
     IN IF ~mailbox
        THEN /\ lock = "free"
             /\ request' = [request EXCEPT ![r] = Respond(q, 500)]
             /\ UNCHANGED << serverVars, uiVars >>
        ELSE /\ \E out \in Outcomes : switch_folder("api", folder, out)
             /\ request' = [request EXCEPT ![r] =
                              IF upc'["api"] = "fetch" THEN [Sent(q) EXCEPT !.pc = "fetch"]
                              ELSE Respond(Sent(q), 500)]
  /\ UNCHANGED << mailbox, imap_sessions, handle >>

\* GET /api/emails: the fetch, the formatting and the response
GetEmailsFetch(r) ==
  /\ request[r].pc = "fetch"
  /\ \E out \in Outcomes :
       /\ fetch_from_imap("api", out)
       /\ request' = [request EXCEPT ![r] =
                        Respond(Sent(request[r]),
                                IF out = "ok" /\ selected # NoFolder THEN 200 ELSE 500)]
  /\ UNCHANGED << mailbox, imap_sessions, handle >>

\* POST /api/emails/{email_uid}/flag: flag_email.func(email_uid=..., ...) under
\* the session id EMAILS_UI_SESSION_ID; a result containing "Error" becomes 400.
\* The text of a failed command ("Failed to set flag ...: <exception>") may or
\* may not contain "Error".
flag_email_endpoint(r, email_uid, flag_type) ==
  /\ request[r].pc = "idle"
  /\ LET q == [request[r] EXCEPT !.email_uid = email_uid, !.flag_type = flag_type]
     IN IF ~mailbox
        THEN /\ request' = [request EXCEPT ![r] = Respond(q, 503)]
             /\ UNCHANGED << _emails_caches, heap >>
        ELSE LET g == get_emails_cache(EMAILS_UI_SESSION_ID)
                 v == ResolveRaw(g.h[g.id], PyNone, email_uid)
             IN /\ _emails_caches' = g.c
                /\ heap' = Collect(g.h, g.c, Refs(thread))
                /\ IF v.r # "go" \/ ~IsFlagType(flag_type)
                   THEN request' = [request EXCEPT ![r] = Respond(q, 400)]
                   ELSE \E out \in Outcomes, status \in {200, 400} :
                          /\ (out = "ok" /\ selected # NoFolder) => status = 200
                          /\ request' = [request EXCEPT ![r] = Respond(Sent(q), status)]
  /\ UNCHANGED << mailbox, imap_sessions, handle, serverVars, disk, thread, last, uiVars >>

\* DELETE /api/emails/{email_uid} as a request with its response
DeleteEmailRequest(r, email_uid) ==
  /\ request[r].pc = "idle"
  /\ LET q == [request[r] EXCEPT !.email_uid = email_uid]
     IN IF ~mailbox
        THEN request' = [request EXCEPT ![r] = Respond(q, 503)] /\ UNCHANGED msgs
        ELSE IF ~py_int_ok(email_uid)
        THEN request' = [request EXCEPT ![r] = Respond(q, 400)] /\ UNCHANGED msgs
        ELSE \E out \in Outcomes :
               IF out = "ok" /\ selected # NoFolder
               THEN /\ msgs' = DeleteEffect(msgs, selected, email_uid.v)
                    /\ request' = [request EXCEPT ![r] = Respond(Sent(q), 200)]
               ELSE /\ request' = [request EXCEPT ![r] = Respond(Sent(q), 500)]
                    /\ UNCHANGED msgs
  /\ UNCHANGED << mailbox, imap_sessions, handle, uidNext, selected, uiVars >>

\* POST /api/emails/send; smtp: whether email_tools.smtp_client is a handle
\* when the request arrives (an input here: no other endpoint reads it)
send_email_endpoint(r) ==
  /\ request[r].pc = "idle"
  /\ \E smtp \in BOOLEAN, out \in Outcomes :
       LET q == [request[r] EXCEPT !.smtp_client = smtp]
       IN request' = [request EXCEPT ![r] =
                        IF ~smtp THEN Respond(q, 503)
                        ELSE Respond(Sent(q), IF out = "ok" THEN 200 ELSE 500)]
  /\ UNCHANGED << mailbox, imap_sessions, handle, serverVars, uiVars >>

httpFrame == << uidIsInt, agent_instances, websocket, calls, bookVars, pureVars >>
UidArgs == {PyStr(1), NotANumber}

NextHttp ==
  \/ \E r \in {"get_emails", "get_email_folders"} :
       /\ InitCheck(r) \/ InitLogin(r) \/ InitAssign(r)
       /\ UNCHANGED << httpFrame, msgs, uidNext, toolVars, last, uiVars >>
  \/ get_email_folders("get_email_folders") /\ UNCHANGED << httpFrame, toolVars, last >>
  \/ \E f \in Selectable \cup {"Nope"} :
       GetEmailsSwitch("get_emails", f) /\ last' = last /\ UNCHANGED << httpFrame, toolVars >>
  \/ GetEmailsFetch("get_emails") /\ UNCHANGED httpFrame
  \/ \E u \in UidArgs, ft \in FlagArgs :
       flag_email_endpoint("flag_email_endpoint", u, ft) /\ UNCHANGED httpFrame
  \/ \E u \in UidArgs :
       DeleteEmailRequest("delete_email_endpoint", u)
       /\ UNCHANGED << httpFrame, toolVars, last >>
  \/ \E u \in UidArgs :
       MoveConnect("move_email_endpoint", u)
       /\ UNCHANGED << httpFrame, toolVars, last, uiVars >>
  \/ \E f \in {"Trash", "Nope"} :
       MoveLogout("move_email_endpoint", f) /\ UNCHANGED << httpFrame, toolVars, last, uiVars >>
  \/ send_email_endpoint("send_email_endpoint") /\ UNCHANGED << httpFrame, toolVars, last >>

SpecHttp == Init /\ [][NextHttp]_vars

\* ----------------------------------------------------- address-book tools
\* Python truthiness of a str / list argument (None, "" and [] are falsy).
TruthyText(s) == s \notin {NoText, ""}
TruthyList(l) == l.t = "list" /\ l.v # <<>>
Member(x, s) == \E i \in 1..Len(s) : s[i] = x

\* `for x in xs: if x not in l: l.append(x)`
RECURSIVE AppendNew(_, _)
AppendNew(l, xs) ==
  IF xs = <<>> THEN l
  ELSE AppendNew(IF Member(Head(xs), l) THEN l ELSE Append(l, Head(xs)), Tail(xs))

\* Variant: `for x in xs: l.append(x)`
RECURSIVE AppendAll(_, _)
AppendAll(l, xs) == IF xs = <<>> THEN l ELSE AppendAll(Append(l, Head(xs)), Tail(xs))

\* list.remove(x): the first occurrence goes
ListRemove(l, x) ==
  LET i == CHOOSE j \in 1..Len(l) : l[j] = x /\ \A k \in 1..(j - 1) : l[k] # x
  IN SubSeq(l, 1, i - 1) \o SubSeq(l, i + 1, Len(l))

\* `for x in xs: if x in l: l.remove(x)`
RECURSIVE RemoveEach(_, _)
RemoveEach(l, xs) ==
  IF xs = <<>> THEN l
  ELSE RemoveEach(IF Member(Head(xs), l) THEN ListRemove(l, Head(xs)) ELSE l, Tail(xs))

\* max(int(k) for k in address_book_data.keys())
MaxKey(book) == CHOOSE n \in {k.v : k \in DOMAIN book} : \A k \in DOMAIN book : k.v <= n

\* Variant: the new id is the number of entries plus one.
NewIdByCount(book) == Cardinality(DOMAIN book) + 1
\* new_id = max(...) + 1
NewId(book) == MaxKey(book) + 1

\* The outcome of an operation before the save: the map, and "ok", a returned
\* error, or "raised" (an assert failed or an exception left the function).
Outcome(book, res, new_id) == [book |-> book, res |-> res, new_id |-> new_id]
Raised(book) == Outcome(book, "raised", PyNone)

\* the add_emails / delete_emails / add_groups / delete_groups branches on the
\* field `key`, with F the loop over the given values
EditList(book, id, key, values, F(_, _)) ==
  IF id = PyNone \/ ~TruthyList(values) \/ id \notin DOMAIN book THEN Raised(book)
  ELSE IF book[id][key].t # "list" THEN Raised(book)
  ELSE Outcome([book EXCEPT ![id][key] = PyList(F(@.v, values.v))], "ok", PyNone)

\* _modify_address_book_impl up to the save
Mutate(book, operation, id, name, emails, groups) ==
  CASE operation = "add_people" ->
         IF ~TruthyText(name) THEN Raised(book)
         ELSE IF \E k \in DOMAIN book : book[k].name = name THEN Outcome(book, "exists", PyNone)
         ELSE IF book = << >> \/ \E k \in DOMAIN book : ~py_int_ok(k) THEN Raised(book)
         ELSE Outcome(Put(book, PyStr(NewId(book)), Person(NewId(book), name, emails, groups)),
                      "ok", PyStr(NewId(book)))
    [] operation = "delete_people" ->
         IF id = PyNone \/ id \notin DOMAIN book THEN Raised(book)
         ELSE Outcome(Drop(book, id), "ok", PyNone)
    [] operation = "add_emails" -> EditList(book, id, "emails", emails, AppendNew)
    [] operation = "delete_emails" -> EditList(book, id, "emails", emails, RemoveEach)
    [] operation = "add_groups" -> EditList(book, id, "groups", groups, AppendNew)
    [] operation = "delete_groups" -> EditList(book, id, "groups", groups, RemoveEach)
    [] operation = "edit_name" ->
         IF id = PyNone \/ ~TruthyText(name) \/ id \notin DOMAIN book THEN Raised(book)
         ELSE Outcome([book EXCEPT ![id].name = name], "ok", PyNone)
    [] OTHER -> Outcome(book, "invalid_operation", PyNone)

\* _modify_address_book_impl: the operation, then json.dump to the file
\* (out: whether the write succeeded); m.file is the file afterwards
Saved(m, file, out) ==
  [book |-> m.book,
   file |-> IF m.res = "ok" /\ out = "ok" THEN m.book ELSE file,
   res |-> IF m.res = "ok" /\ out # "ok" THEN "save_error" ELSE m.res,
   new_id |-> m.new_id]
_modify_address_book_impl(book, file, operation, id, name, emails, groups, out) ==
  Saved(Mutate(book, operation, id, name, emails, groups), file, out)

Operations == {"add_people", "delete_people", "add_emails", "delete_emails",
               "add_groups", "delete_groups", "edit_name"}

\* The agent calls the tool modify_address_book.
modify_address_book(operation, id, name, emails, groups) ==
  /\ calls < MaxCalls
  /\ calls' = calls + 1
  /\ \E out \in Outcomes :
       LET m == _modify_address_book_impl(address_book_data, address_book_json,
                                          operation, id, name, emails, groups, out)
       IN /\ address_book_data' = m.book
          /\ address_book_json' = m.file
          /\ reply' = [op |-> operation, id |-> id, name |-> name, emails |-> emails,
                       groups |-> groups, res |-> m.res, new_id |-> m.new_id, infos |-> <<>>]
          /\ assigned' = IF m.new_id # PyNone /\ m.new_id.v > assigned
                         THEN m.new_id.v ELSE assigned

\* The entries of a book in key order, as .values() yields them.
RECURSIVE Values(_)
Values(book) ==
  IF book = << >> THEN <<>>
  ELSE LET k == CHOOSE j \in DOMAIN book : \A i \in DOMAIN book : j.v <= i.v
       IN << book[k] >> \o Values(Drop(book, k))

\* search_address_book(name=name): the entries with that name, or an assert
search_address_book(name) ==
  /\ calls < MaxCalls
  /\ calls' = calls + 1
  /\ LET Named(v) == v.name = name
         infos == IF name = NoText THEN Values(address_book_data)
                  ELSE SelectSeq(Values(address_book_data), Named)
     IN reply' = [NoReply EXCEPT !.op = "search_address_book", !.name = name,
                                 !.res = IF infos = <<>> THEN "raised" ELSE "ok",
                                 !.infos = infos]
  /\ UNCHANGED << address_book_data, address_book_json, assigned >>

bookFrame == << mailbox, uidIsInt, agent_instances, websocket, connVars, serverVars,
                toolVars, last, uiVars, pureVars >>

\* add_people, delete_people and search_address_book only
NextBookIds ==
  \/ \E name \in {NoText, "Ann", "Zed", "Yan"}, emails \in {NoList, PyList(<< "a" >>)} :
       modify_address_book("add_people", PyNone, name, emails, NoList) /\ UNCHANGED bookFrame
  \/ \E id \in {PyStr(1), PyStr(2), PyStr(3), PyStr(9)} :
       modify_address_book("delete_people", id, NoText, NoList, NoList) /\ UNCHANGED bookFrame
  \/ \E name \in {"Ann", "Zed"} : search_address_book(name) /\ UNCHANGED bookFrame

SpecBookIds == Init /\ [][NextBookIds]_vars

\* ------------------------------------------------ PUT /api/contacts/{id}
\* One call of _modify_address_book_impl on the pair (map, file) bf.
Step(bf, operation, id, name, emails, groups, out) ==
  _modify_address_book_impl(bf.book, bf.file, operation, id, name, emails, groups, out)

\* update_contact, the emails / groups part: existing.get(key, [])[:], then
\* delete_<key> of the existing values and add_<key> of the new ones, the
\* results of both ignored.  res is "raised" when the slice raises.
DeleteExisting(bf, id, key, outDel) ==
  IF bf.book[id][key].v = <<>> THEN bf
  ELSE IF key = "emails"
  THEN Step(bf, "delete_emails", id, NoText, bf.book[id][key], NoList, outDel)
  ELSE Step(bf, "delete_groups", id, NoText, NoList, bf.book[id][key], outDel)
AddGiven(bf, id, key, values, outAdd) ==
  IF ~TruthyList(values) THEN bf
  ELSE IF key = "emails"
  THEN Step(bf, "add_emails", id, NoText, values, NoList, outAdd)
  ELSE Step(bf, "add_groups", id, NoText, NoList, values, outAdd)
Ignored(bf) == [bf EXCEPT !.res = "ok"]
ReplaceList(bf, id, key, values, outDel, outAdd) ==
  IF values = NoList THEN bf
  ELSE IF bf.book[id][key].t # "list" THEN [bf EXCEPT !.res = "raised"]
  ELSE Ignored(AddGiven(DeleteExisting(bf, id, key, outDel), id, key, values, outAdd))

\* The steps of update_contact on the pair (map, file): edit_name, then,
\* unless that failed, the emails and the groups.
PutName(bf, found, contact_id, name, out) ==
  IF found /\ name # NoText
  THEN Step(bf, "edit_name", contact_id, name, NoList, NoList, out[1])
  ELSE bf
PutList(bf, found, contact_id, key, values, outDel, outAdd) ==
  IF found /\ bf.res = "ok"
  THEN ReplaceList(bf, contact_id, key, values, outDel, outAdd)
  ELSE bf
\* n: after edit_name; the result is the pair after the groups with the status
PutLists(n, found, contact_id, emails, groups, out) ==
  [n |-> n,
   g |-> PutList(PutList(n, found, contact_id, "emails", emails, out[2], out[3]),
                 found, contact_id, "groups", groups, out[4], out[5])]
PutStatus(r, found) ==
  IF ~found THEN "404"
  ELSE IF r.n.res = "raised" THEN "500"
  ELSE IF r.n.res # "ok" THEN "400"
  ELSE IF r.g.res # "ok" THEN "500"
  ELSE "200"
PutAnswer(r, status, contact_id, name, emails, groups) ==
  /\ address_book_data' = IF status = "200" THEN r.g.file ELSE r.g.book
  /\ address_book_json' = r.g.file
  /\ reply' = [op |-> "update_contact", id |-> contact_id, name |-> name,
               emails |-> emails, groups |-> groups, res |-> status,
               new_id |-> PyNone, infos |-> <<>>]
PutRun(r, found, contact_id, name, emails, groups) ==
  PutAnswer(r, PutStatus(r, found), contact_id, name, emails, groups)

\* update_contact: load_address_book(), the 404 check, edit_name (a result
\* containing "Error" becomes 400, an exception 500), the emails, the groups,
\* load_address_book() again.  out[i]: whether the i-th save succeeds.
update_contact(contact_id, name, emails, groups) ==
  /\ calls < MaxCalls
  /\ calls' = calls + 1
  /\ UNCHANGED assigned
  /\ \E out \in [1..5 -> Outcomes] :
       PutRun(PutLists(PutName([book |-> address_book_json, file |-> address_book_json,
                                res |-> "ok", new_id |-> PyNone],
                               contact_id \in DOMAIN address_book_json,
                               contact_id, name, out),
                       contact_id \in DOMAIN address_book_json,
                       contact_id, emails, groups, out),
              contact_id \in DOMAIN address_book_json, contact_id, name, emails, groups)

BookIdArgs == {PyNone, PyStr(1), PyStr(3)}
\* update_contact requests: (contact_id, name, emails, groups)
PutArgs ==
  { << PyStr(1), "Zed", NoList, NoList >>,
    << PyStr(1), "", PyList(<< "b" >>), NoList >>,
    << PyStr(1), NoText, PyList(<< "b" >>), PyList(<<>>) >>,
    << PyStr(3), "Yan", PyList(<< "b" >>), PyList(<< "H" >>) >>,
    << PyStr(3), NoText, NoList, PyList(<< "H" >>) >> }
EmailsArgs == {NoList, PyList(<< "b" >>), PyList(<< "a", "b", "b" >>)}
GroupsArgs == {NoList, PyList(<< "G" >>)}

NextBook ==
  \/ \E name \in {NoText, "Ann", "Zed"}, emails \in {NoList, PyList(<< "b", "b" >>)},
        groups \in GroupsArgs :
       modify_address_book("add_people", PyNone, name, emails, groups) /\ UNCHANGED bookFrame
  \/ \E id \in BookIdArgs :
       modify_address_book("delete_people", id, NoText, NoList, NoList) /\ UNCHANGED bookFrame
  \/ \E operation \in {"add_emails", "delete_emails"}, id \in BookIdArgs, emails \in EmailsArgs :
       modify_address_book(operation, id, NoText, emails, NoList) /\ UNCHANGED bookFrame
  \/ \E operation \in {"add_groups", "delete_groups"}, id \in BookIdArgs, groups \in GroupsArgs :
       modify_address_book(operation, id, NoText, NoList, groups) /\ UNCHANGED bookFrame
  \/ \E id \in BookIdArgs, name \in {NoText, "Bob", "Zed"} :
       modify_address_book("edit_name", id, name, NoList, NoList) /\ UNCHANGED bookFrame
  \/ modify_address_book("rename", PyStr(1), "Zed", NoList, NoList) /\ UNCHANGED bookFrame
  \/ \E a \in PutArgs : update_contact(a[1], a[2], a[3], a[4]) /\ UNCHANGED bookFrame
  \/ search_address_book("Zed") /\ UNCHANGED bookFrame

SpecBook == Init /\ [][NextBook]_vars

\* ------------------------------------------------ sender of a fetched email
IsSpace(c) == c = " "
\* str.strip()
strip(s) ==
  LET keep == {i \in 1..Len(s) : ~IsSpace(s[i])}
  IN IF keep = {} THEN <<>>
     ELSE SubSeq(s, CHOOSE i \in keep : \A k \in keep : i <= k,
                    CHOOSE j \in keep : \A k \in keep : k <= j)

\* re.search(r'<([^>]+)>', s) can match from position i: a '<', one or more
\* characters other than '>', then '>' at position j.
Closes(s, i, j) ==
  /\ s[i] = "<" /\ j > i + 1 /\ s[j] = ">"
  /\ \A k \in (i + 1)..(j - 1) : s[k] # ">"
Opens(s) == {i \in 1..Len(s) : \E j \in 1..Len(s) : Closes(s, i, j)}
\* group(1) of the leftmost match
email_match(s) ==
  LET i == CHOOSE a \in Opens(s) : \A b \in Opens(s) : a <= b
      j == CHOOSE b \in 1..Len(s) : Closes(s, i, b)
  IN SubSeq(s, i + 1, j - 1)

\* re.match(r'^"?([^"<>]+?)"?\s*<', s): after an optional quote the group is
\* the shortest run of characters other than " < > that is followed by an
\* optional quote, white space and '<'.
NameChar(c) == c \notin {"\"", "<", ">"}
NameRest(s, e) ==
  \E q \in {0, 1} :
    /\ q = 1 => (e + 1 <= Len(s) /\ s[e + 1] = "\"")
    /\ \E w \in (e + q + 1)..Len(s) :
         /\ s[w] = "<"
         /\ \A k \in (e + q + 1)..(w - 1) : IsSpace(s[k])
NameStart(s) == IF s # <<>> /\ s[1] = "\"" THEN 2 ELSE 1
NameEnds(s) ==
  {e \in NameStart(s)..Len(s) :
     (\A k \in NameStart(s)..e : NameChar(s[k])) /\ NameRest(s, e)}
\* name_match.group(1).strip() if name_match else ''
name_match(s) ==
  IF NameEnds(s) = {} THEN <<>>
  ELSE strip(SubSeq(s, NameStart(s), CHOOSE e \in NameEnds(s) : \A k \in NameEnds(s) : e <= k))

\* The sender part of fetch_emails_for_folder_async for one email whose
\* str(email.from_) is from_field (one email is formatted in a behaviour).
parse_sender(from_field) ==
  LET sender_email ==
        IF from_field = <<>> THEN UnknownSender
        ELSE IF Opens(from_field) # {} THEN email_match(from_field)
        ELSE IF Member("@", from_field) THEN strip(from_field)
        ELSE UnknownSender
      sender_name ==
        IF from_field = <<>> THEN <<>>
        ELSE IF Opens(from_field) # {} THEN name_match(from_field)
        ELSE IF Member("@", from_field) THEN <<>>
        ELSE strip(from_field)
  IN [raw |-> from_field, sender_email |-> sender_email, sender_name |-> sender_name,
      from |-> sender_email,
      fromName |-> IF sender_name # <<>> THEN sender_name ELSE sender_email,
      done |-> TRUE]

format_sender(from_field) ==
  /\ ~formatted_email.done
  /\ formatted_email' = parse_sender(from_field)
  /\ UNCHANGED << mailbox, uidIsInt, agent_instances, websocket, connVars, bookVars,
                  serverVars, toolVars, last, uiVars, calls, listed, gateVars,
                  registryVars, startupVars, extracted >>

NextSender == \E from_field \in FromArgs : format_sender(from_field)
SpecSender == Init /\ [][NextSender]_vars

\* ---------------------------------------------------- read_emails filters
\* The messages of the selected folder in uid order: sender address, the day
\* of January 2024 they were received on, and whether they carry \Seen.
Letter(uid, sender, day, seen) == [uid |-> uid, from_ |-> sender, date |-> day, seen |-> seen]
Letters ==
  << Letter(1, "a", 1, TRUE), Letter(2, "b", 2, FALSE),
     Letter(3, "a", 2, FALSE), Letter(4, "c", 3, TRUE) >>

\* A date argument: the text '2024-01-0d', or a text strptime rejects.
DateText(d) == [t |-> "date", v |-> d]
BadDateText == [t |-> "text", v |-> 0]
\* datetime.strptime(s, '%Y-%m-%d') succeeds
strptime_date_ok(s) == s.t = "date"

\* AND(*criteria) as read_emails builds it: seen=False when unread_only, the
\* sender (one, or an OR of several) when from_ is a non-empty list,
\* date_gte=start_date, date_lt=end_date.
criteria(m, unread_only, from_, start_date, end_date) ==
  /\ unread_only => ~m.seen
  /\ TruthyList(from_) => Member(m.from_, from_.v)
  /\ start_date # PyNone => m.date >= start_date.v
  /\ end_date # PyNone => m.date < end_date.v

\* list(mailbox.fetch(..., limit=num_emails)): the first num_emails matches
Limit(s, num_emails) ==
  IF num_emails = PyNone \/ num_emails.v >= Len(s) THEN s ELSE SubSeq(s, 1, num_emails.v)
UidsOf(s) == [i \in 1..Len(s) |-> s[i].uid]

\* read_emails from the criteria to the fetch, as one call with filter
\* arguments (one call in a behaviour); a date strptime rejects raises
\* ValueError.
read_emails_criteria(unread_only, from_, start_date, end_date, num_emails) ==
  /\ listed.res = "none"
  /\ LET bad == \/ start_date # PyNone /\ ~strptime_date_ok(start_date)
                \/ end_date # PyNone /\ ~strptime_date_ok(end_date)
         emails == Limit(SelectSeq(Letters,
                      LAMBDA m : criteria(m, unread_only, from_, start_date, end_date)),
                    num_emails)
     IN listed' = [unread_only |-> unread_only, from_ |-> from_,
                   start_date |-> start_date, end_date |-> end_date,
                   num_emails |-> num_emails,
                   res |-> IF bad THEN "raised" ELSE "ok",
                   uids |-> IF bad THEN <<>> ELSE UidsOf(emails)]
  /\ UNCHANGED << mailbox, uidIsInt, agent_instances, websocket, connVars, bookVars,
                  serverVars, toolVars, last, uiVars, calls, formatted_email, gateVars,
                  registryVars, startupVars, extracted >>

SenderArgs == {NoList, PyList(<<>>), PyList(<< "a" >>), PyList(<< "a", "b" >>)}
DayArgs == {PyNone, BadDateText} \cup {DateText(d) : d \in 1..3}
LimitArgs == {PyNone, PyInt(1), PyInt(2)}
NextFilter ==
  \E unread_only \in BOOLEAN, from_ \in SenderArgs, start_date \in DayArgs,
     end_date \in DayArgs, num_emails \in LimitArgs :
    read_emails_criteria(unread_only, from_, start_date, end_date, num_emails)
SpecFilter == Init /\ [][NextFilter]_vars

\* ------------------------------------------------ restart from a snapshot
\* A file content that json.load / len() fails on.
Unreadable == << [t |-> "corrupt", v |-> 0] >>

\* [None] * len(data)
_deserialize_email_cache(data) == [i \in 1..Len(data) |-> NoneEntry]

\* load_emails_cache_from_disk: one new list per session id of the file; any
\* exception leaves the map empty.  A missing file is the empty map.
load_emails_cache_from_disk(data) ==
  LET ks == DOMAIN data
      id == CHOOSE f \in [ks -> ObjIds] : \A a, b \in ks : a # b => f[a] # f[b]
  IN IF \E k \in ks : data[k] = Unreadable
     THEN [c |-> [k \in {} |-> NoObj], h |-> [i \in ObjIds |-> <<>>]]
     ELSE [c |-> id,
           h |-> [i \in ObjIds |-> IF \E k \in ks : id[k] = i
                                   THEN _deserialize_email_cache(data[CHOOSE k \in ks : id[k] = i])
                                   ELSE <<>>]]

\* Cache files found at startup: none, and files written by an earlier run.
Snapshots ==
  { [k \in {} |-> <<>>],
    [k \in {"s1"} |-> << PyStr(1), PyNone >>],
    [k \in {DefaultSession} |-> << PyStr(1) >>],
    [k \in {"s1", "s2"} |-> IF k = "s1" THEN << PyStr(1), PyStr(2) >> ELSE <<>>],
    [k \in {"s1", "s2"} |-> IF k = "s1" THEN << PyStr(1) >> ELSE Unreadable] }

\* startup_event: load_emails_cache_from_disk(), then init_email.
InitRecovery ==
  /\ mailbox \in BOOLEAN
  /\ uidIsInt \in BOOLEAN
  /\ msgs = InitMsgs
  /\ uidNext = [f \in Selectable |-> 3]
  /\ selected = IF mailbox THEN "INBOX" ELSE NoFolder
  /\ disk \in Snapshots
  /\ _emails_caches = load_emails_cache_from_disk(disk).c
  /\ heap = load_emails_cache_from_disk(disk).h
  /\ thread = [t \in Sessions |-> IdleThread]
  /\ last = NoResult
  /\ lock = "free"
  /\ upc = [u \in UiTasks |-> "idle"]
  /\ ufolder = [u \in UiTasks |-> NoFolder]
  /\ _emails_ui_cache = [f \in {} |-> <<>>]
  /\ agent_instances = {}
  /\ websocket = NoWebsocket
  /\ imap_sessions = IF mailbox THEN {"startup"} ELSE {}
  /\ handle = IF mailbox THEN "startup" ELSE NoSession
  /\ request = [r \in ConnTasks \cup Endpoints |-> NoRequest]
  /\ address_book_data = TwoPeople
  /\ address_book_json = address_book_data
  /\ reply = NoReply
  /\ assigned = 0
  /\ formatted_email = NoSender
  /\ listed = NoListed
  /\ _folder_unread_counts = [f \in {} |-> 0]
  /\ isUnread = [f \in {} |-> <<>>]
  /\ _waiters = <<>>
  /\ active_connections = [k \in {} |-> 0]
  /\ connections = [w \in WebSockets |-> NoConnection]
  /\ startup = NotStarted
  /\ smtp_client = FALSE
  /\ agent_initialized = FALSE
  /\ agent_succeeded = FALSE
  /\ health = NoHealth
  /\ extracted = NotExtracted
  /\ calls = 0

\* The chat sessions' tool calls after the restart.
NextRecovery ==
  \/ Deliver
  \/ ~Busy /\ \E t \in Sessions : Tool(t)

SpecRecovery == InitRecovery /\ [][NextRecovery]_vars

\* ------------------------------------------------------- session teardown
\* ensure_agent(session_id) of a chat turn: create the agent if there is none
ensure_agent(session_id) ==
  /\ session_id \notin agent_instances
  /\ calls < MaxCalls
  /\ calls' = calls + 1
  /\ agent_instances' = agent_instances \cup {session_id}
  /\ UNCHANGED << mailbox, uidIsInt, websocket, connVars, bookVars, pureVars, serverVars, toolVars, last, uiVars >>

\* clear_emails_cache(chat_session_id): delete the key and save, if present
clear_emails_cache(chat_session_id) ==
  IF chat_session_id \in DOMAIN _emails_caches
  THEN LET c2 == Drop(_emails_caches, chat_session_id)
           h2 == Collect(heap, c2, Refs(thread))
       IN /\ _emails_caches' = c2
          /\ heap' = h2
          /\ disk' = save_emails_cache_to_disk(c2, h2)
  ELSE UNCHANGED << _emails_caches, heap, disk >>

\* DELETE /api/sessions/{session_id}
delete_session(session_id) ==
  /\ calls < MaxCalls
  /\ calls' = calls + 1
  /\ agent_instances' = agent_instances \ {session_id}
  /\ clear_emails_cache(session_id)
  /\ UNCHANGED << mailbox, uidIsInt, websocket, connVars, bookVars, pureVars, serverVars, thread, last, uiVars >>

\* The server restarted from a readable cache file holding chat sessions.
InitTeardown ==
  /\ InitRecovery
  /\ \A k \in DOMAIN disk : k \in Sessions /\ disk[k] # Unreadable

NextTeardown ==
  \/ Deliver
  \/ ~Busy /\ \E t \in Sessions : read_emails(t) \/ delete_email(t)
  \/ ~Busy /\ \E s \in Sessions : ensure_agent(s)
  \/ ~Busy /\ \E s \in Sessions : delete_session(s)

SpecTeardown == InitTeardown /\ [][NextTeardown]_vars

\* ------------------------------------------------- _imap_lock and UI cache
\* The UI fetch functions as coroutines queueing for _imap_lock.  The event
\* loop runs a coroutine from one await to the next without interleaving, so
\* a step below is the code between two awaits.
gateFrame == << mailbox, uidIsInt, agent_instances, websocket, connVars, bookVars,
                formatted_email, listed, toolVars, last, calls, registryVars,
                startupVars, extracted >>

\* asyncio.Lock.acquire takes the lock at once only when it is unlocked and
\* nobody queues (mutant first: whenever it is unlocked).
CanTakeBarging(l, w) == l = "free"
CanTake(l, w) == l = "free" /\ w = <<>>

\* what a task does under the lock: the listing (no folder) or folder.set
Held(folder) == IF folder = NoFolder THEN "list" ELSE "select"
\* /ws/emails sends a message after each fetch; GET /api/emails returns
After(u) == IF u = "ws" THEN "send" ELSE "idle"

\* `async with _imap_lock` of fetch_folders_async (folder = NoFolder) or of
\* fetch_emails_for_folder_async: the lock is taken, or the task queues
acquire(u, folder) ==
  /\ upc[u] = "idle"
  /\ mailbox
  /\ ufolder' = [ufolder EXCEPT ![u] = folder]
  /\ IF CanTake(lock, _waiters)
     THEN /\ lock' = u
          /\ upc' = [upc EXCEPT ![u] = Held(folder)]
          /\ UNCHANGED _waiters
     ELSE /\ _waiters' = Append(_waiters, u)
          /\ upc' = [upc EXCEPT ![u] = "waiting"]
          /\ UNCHANGED lock
  /\ UNCHANGED << gateFrame, serverVars, _emails_ui_cache, _folder_unread_counts, isUnread >>

\* release() woke the first waiter: it leaves the queue and holds the lock
wake_up(u) ==
  /\ upc[u] = "waiting"
  /\ lock = "free"
  /\ _waiters # <<>>
  /\ Head(_waiters) = u
  /\ lock' = u
  /\ _waiters' = Tail(_waiters)
  /\ upc' = [upc EXCEPT ![u] = Held(ufolder[u])]
  /\ UNCHANGED << gateFrame, serverVars, ufolder, _emails_ui_cache, _folder_unread_counts,
                  isUnread >>

\* get_folders (mailbox.folder.list()) returned or raised; the lock is released
get_folders(u, out) ==
  /\ upc[u] = "list"
  /\ lock' = "free"
  /\ upc' = [upc EXCEPT ![u] = IF out = "ok" THEN After(u) ELSE "idle"]
  /\ UNCHANGED << gateFrame, serverVars, ufolder, _emails_ui_cache, _folder_unread_counts,
                  isUnread, _waiters >>

\* mailbox.folder.set(folder_name) returned, or raised and the lock is released
folder_set(u, out) ==
  /\ upc[u] = "select"
  /\ IF ufolder[u] \in Selectable /\ out = "ok"
     THEN /\ selected' = ufolder[u]
          /\ upc' = [upc EXCEPT ![u] = "fetch"]
          /\ UNCHANGED lock
     ELSE /\ selected' = IF ufolder[u] \in Selectable THEN selected ELSE NoFolder
          /\ upc' = [upc EXCEPT ![u] = After(u)]
          /\ lock' = "free"
  /\ UNCHANGED << gateFrame, msgs, uidNext, ufolder, _emails_ui_cache,
                  _folder_unread_counts, isUnread, _waiters >>

\* The formatting loop over raw_emails.  `unread`: the uids the server
\* reports without \Seen; an email whose formatting raises is skipped by the
\* except branch: `early` raise before the flags are looked at, `late` after
\* them (while the attachments are read).
formatted_emails(raw_emails, unread, early, late) ==
  LET kept == SelectSeq(raw_emails, LAMBDA e : e.uid.v \notin (early \cup late))
  IN [i \in 1..Len(kept) |->
        [uid |-> PyStr(kept[i].uid.v), isUnread |-> kept[i].uid.v \in unread]]
unread_count(raw_emails, unread, early) ==
  Cardinality({i \in 1..Len(raw_emails) : raw_emails[i].uid.v \in (unread \ early)})

\* fetch_from_imap returned or raised; the lock is released; on success the
\* emails are formatted and the folder's list and counter are saved
fetch_emails_for_folder_async(u, out, unread, early, late) ==
  /\ upc[u] = "fetch"
  /\ lock' = "free"
  /\ upc' = [upc EXCEPT ![u] = After(u)]
  /\ IF out = "ok" /\ selected # NoFolder
     THEN LET f == formatted_emails(Fetch(selected), unread, early, late)
          IN /\ _emails_ui_cache' =
                  Put(_emails_ui_cache, ufolder[u], [i \in 1..Len(f) |-> f[i].uid])
             /\ isUnread' = Put(isUnread, ufolder[u], [i \in 1..Len(f) |-> f[i].isUnread])
             /\ _folder_unread_counts' =
                  Put(_folder_unread_counts, ufolder[u],
                      unread_count(Fetch(selected), unread, early))
     ELSE UNCHANGED << _emails_ui_cache, isUnread, _folder_unread_counts >>
  /\ UNCHANGED << gateFrame, serverVars, ufolder, _waiters >>

\* websocket.send_json of folders / folder_loaded / error: sent, or the
\* client is gone and the handler ends
ws_send(u, out) ==
  /\ upc[u] = "send"
  /\ upc' = [upc EXCEPT ![u] = IF out = "ok" THEN "pause" ELSE "idle"]
  /\ UNCHANGED << gateFrame, serverVars, lock, ufolder, _emails_ui_cache,
                  _folder_unread_counts, isUnread, _waiters >>

\* asyncio.sleep(0.2) is over: on to the next folder
ws_sleep(u) ==
  /\ upc[u] = "pause"
  /\ upc' = [upc EXCEPT ![u] = "idle"]
  /\ UNCHANGED << gateFrame, serverVars, lock, ufolder, _emails_ui_cache,
                  _folder_unread_counts, isUnread, _waiters >>

Fetched(u) ==
  /\ upc[u] = "fetch"
  /\ LET uids == IF selected \in DOMAIN msgs THEN msgs[selected] ELSE {}
     IN \E out \in Outcomes, unread \in SUBSET uids, early \in SUBSET uids :
          \E late \in SUBSET (uids \ early) :
            fetch_emails_for_folder_async(u, out, unread, early, late)

NextGate ==
  \/ \E u \in UiTasks, folder \in Selectable \cup {NoFolder, "Nope"} : acquire(u, folder)
  \/ \E u \in UiTasks : wake_up(u)
  \/ \E u \in UiTasks, out \in Outcomes : get_folders(u, out)
  \/ \E u \in UiTasks, out \in Outcomes : folder_set(u, out)
  \/ \E u \in UiTasks : Fetched(u)
  \/ \E u \in UiTasks, out \in Outcomes : ws_send(u, out)
  \/ \E u \in UiTasks : ws_sleep(u)

SpecGate == Init /\ [][NextGate]_vars

\* A command on the IMAP connection returns or raises, and the event loop
\* resumes a task whose future is done.
FairGate ==
  /\ SpecGate
  /\ \A u \in UiTasks :
       /\ WF_vars(wake_up(u))
       /\ WF_vars(\E out \in Outcomes : get_folders(u, out))
       /\ WF_vars(\E out \in Outcomes : folder_set(u, out))
       /\ WF_vars(Fetched(u))

\* ------------------------------------------------------ active_connections
registryFrame == << mailbox, uidIsInt, agent_instances, websocket, connVars, bookVars,
                    formatted_email, listed, gateVars, serverVars, toolVars, last, uiVars,
                    calls, startupVars, extracted >>

websocket_id(w) == PyInt(w)
\* f"session_{websocket_id}"; the session ids clients send are PyStr(1), PyStr(2)
FallbackSession(w) == PyStr(10 + w)
SessionIdArgs == {PyNone, PyStr(1), PyStr(2)}

\* `if key in active_connections: del active_connections[key]`
Unregister(key) ==
  IF key \in DOMAIN active_connections THEN Drop(active_connections, key)
  ELSE active_connections

\* websocket.accept(); active_connections[websocket_id] = websocket
WsRegister(w, endpoint) ==
  /\ connections[w].pc = "none"
  /\ connections' = [connections EXCEPT ![w] = [NoConnection EXCEPT !.endpoint = endpoint,
                                                                  !.pc = "open"]]
  /\ active_connections' = Put(active_connections, websocket_id(w), w)
  /\ UNCHANGED registryFrame

\* /ws/chat: a message arrives; the first one fixes chat_session_id (the
\* client's session_id, or the fallback when it sends none)
ChatMessage(w, session_id) ==
  /\ connections[w].endpoint = "/ws/chat"
  /\ connections[w].pc = "open"
  /\ connections[w].chat_session_id = PyNone
  /\ connections' = [connections EXCEPT ![w].chat_session_id =
                       IF session_id # PyNone THEN session_id ELSE FallbackSession(w)]
  /\ UNCHANGED << registryFrame, active_connections >>

\* /ws/chat: the client is gone when the pong is sent: break, and the handler
\* returns past the except clauses
ChatPongFails(w) ==
  /\ connections[w].endpoint = "/ws/chat"
  /\ connections[w].pc = "open"
  /\ connections' = [connections EXCEPT ![w].pc = "closed"]
  /\ UNCHANGED << registryFrame, active_connections >>

\* /ws/chat: a send of the turn raises WebSocketDisconnect or another
\* Exception: both except clauses unregister chat_session_id
ChatRaises(w) ==
  /\ connections[w].endpoint = "/ws/chat"
  /\ connections[w].pc = "open"
  /\ connections' = [connections EXCEPT ![w].pc = "closed"]
  /\ active_connections' = Unregister(connections[w].chat_session_id)
  /\ UNCHANGED registryFrame

\* /ws/emails: the handler ends (refresh, disconnect, error, failed send):
\* the finally clause unregisters websocket_id
EmailsEnds(w) ==
  /\ connections[w].endpoint = "/ws/emails"
  /\ connections[w].pc = "open"
  /\ connections' = [connections EXCEPT ![w].pc = "closed"]
  /\ active_connections' = Unregister(websocket_id(w))
  /\ UNCHANGED registryFrame

NextRegistry ==
  \/ \E w \in WebSockets, endpoint \in {"/ws/chat", "/ws/emails"} : WsRegister(w, endpoint)
  \/ \E w \in WebSockets, session_id \in SessionIdArgs : ChatMessage(w, session_id)
  \/ \E w \in WebSockets : ChatPongFails(w)
  \/ \E w \in WebSockets : ChatRaises(w)
  \/ \E w \in WebSockets : EmailsEnds(w)

SpecRegistry == Init /\ [][NextRegistry]_vars

\* ------------------------------------------------------ background startup
\* initialize_agent_async as a coroutine that hands init_email and
\* initialize_agent to executor threads.  A thread cannot be cancelled: after
\* a timeout it runs on and still stores its results.
startupFrame == << uidIsInt, agent_instances, websocket, request, bookVars,
                   formatted_email, listed, gateVars, registryVars, msgs, uidNext,
                   toolVars, last, uiVars, calls, extracted >>

\* asyncio.wait_for(fut, timeout) is over: the thread has finished, or the
\* timer has fired (mutant first: no timeout)
WaitForever(state, timer) == state = "done"
WaitOver(state, timer) == state = "done" \/ timer

\* run_in_executor(None, init_email) / (None, initialize_agent)
StartThread(pc, field, next) ==
  /\ startup.pc = pc
  /\ startup' = [startup EXCEPT !.pc = next, ![field] = "running"]
  /\ UNCHANGED << startupFrame, mailbox, selected, imap_sessions, handle, smtp_client,
                  agent_initialized, agent_succeeded, health >>

\* init_email, first half: the IMAP login and the store to mailbox
InitImap(out) ==
  /\ startup.email = "running"
  /\ startup' = [startup EXCEPT !.email = "smtp"]
  /\ mailbox' = (out = "ok")
  /\ selected' = IF mailbox' THEN "INBOX" ELSE selected
  /\ imap_sessions' = IF mailbox' THEN imap_sessions \cup {"startup"} ELSE imap_sessions
  /\ handle' = IF mailbox' THEN "startup" ELSE NoSession
  /\ UNCHANGED << startupFrame, smtp_client, agent_initialized, agent_succeeded, health >>

\* init_email, second half: the SMTP login and the store to smtp_client
InitSmtp(out) ==
  /\ startup.email = "smtp"
  /\ startup' = [startup EXCEPT !.email = "done"]
  /\ smtp_client' = (out = "ok")
  /\ UNCHANGED << startupFrame, mailbox, selected, imap_sessions, handle,
                  agent_initialized, agent_succeeded, health >>

\* initialize_agent in its thread: the flag is set on success and cleared in
\* the except branch
initialize_agent(out) ==
  /\ startup.agent = "running"
  /\ startup' = [startup EXCEPT !.agent = "done"]
  /\ agent_initialized' = (out = "ok")
  /\ agent_succeeded' = (agent_succeeded \/ out = "ok")
  /\ UNCHANGED << startupFrame, mailbox, selected, imap_sessions, handle, smtp_client,
                  health >>

\* the await of a wait_for returns or raises (TimeoutError or another
\* exception); every except branch goes on to the next stage
Awaited(pc, field, next, timer) ==
  /\ startup.pc = pc
  /\ WaitOver(startup[field], timer)
  /\ startup' = [startup EXCEPT !.pc = next]
  /\ UNCHANGED << startupFrame, mailbox, selected, imap_sessions, handle, smtp_client,
                  agent_initialized, agent_succeeded, health >>

\* check_email_services() and the status lines; the coroutine returns
ServiceStatus ==
  /\ startup.pc = "status"
  /\ startup' = [startup EXCEPT !.pc = "returned"]
  /\ UNCHANGED << startupFrame, mailbox, selected, imap_sessions, handle, smtp_client,
                  agent_initialized, agent_succeeded, health >>

initialize_agent_async ==
  \/ StartThread("created", "email", "email")
  \/ \E timer \in BOOLEAN : Awaited("email", "email", "agent_start", timer)
  \/ StartThread("agent_start", "agent", "agent")
  \/ \E timer \in BOOLEAN : Awaited("agent", "agent", "status", timer)
  \/ ServiceStatus

\* initialize_agent_for_session on the first message of a chat session: the
\* flag is set once create_deep_agent has returned
initialize_agent_for_session(out) ==
  /\ out = "ok"
  /\ ~agent_initialized
  /\ agent_initialized' = TRUE
  /\ agent_succeeded' = TRUE
  /\ UNCHANGED << startupFrame, mailbox, selected, imap_sessions, handle, smtp_client,
                  startup, health >>

\* check_email_services: both module attributes exist from import on, so the
\* answer is whether each of them is not None
check_email_services ==
  [email_initialized |-> TRUE, imap_connected |-> mailbox, smtp_connected |-> smtp_client]

\* GET /api/health
health_check ==
  /\ health' = [status |-> "healthy",
                imap_connected |-> check_email_services.imap_connected,
                smtp_connected |-> check_email_services.smtp_connected,
                initialized |-> agent_initialized]
  /\ health' # health
  /\ UNCHANGED << startupFrame, mailbox, selected, imap_sessions, handle, smtp_client,
                  agent_initialized, agent_succeeded, startup >>

NextStartup ==
  \/ initialize_agent_async
  \/ \E out \in Outcomes : InitImap(out)
  \/ \E out \in Outcomes : InitSmtp(out)
  \/ \E out \in Outcomes : initialize_agent(out)
  \/ \E out \in Outcomes : initialize_agent_for_session(out)
  \/ health_check

InitStartup ==
  /\ Init
  /\ ~mailbox

SpecStartup == InitStartup /\ [][NextStartup]_vars

\* The event loop runs a coroutine whose await is over, and fires the timers
\* of wait_for; nothing is assumed of the executor threads.
FairStartup ==
  /\ SpecStartup
  /\ WF_vars(initialize_agent_async)

\* ---------------------------------------------------- reasoning tool calls
\* Values of a reasoning_content item.  A key that is missing holds Absent; a
\* dict is Dict(n) (Dict(0) is {}); a str is PyStr(n): for n >= 0 the JSON
\* text of Dict(n), for n < 0 a text json.loads rejects.  Names and ids are
\* strs; "type" holds "" when the key is missing.
Absent == [t |-> "absent", v |-> 0]
Dict(n) == [t |-> "dict", v |-> n]
EmptyDict == Dict(0)
json_loads_ok(s) == s.v >= 0
json_loads(s) == Dict(s.v)
\* f"reasoning_tc_{id(...)}": the id made up for an item without one
reasoning_tc == PyStr(0)

NoFunction == [present |-> FALSE, name |-> Absent, arguments |-> Absent]
Function(name, arguments) == [present |-> TRUE, name |-> name, arguments |-> arguments]
Item(type, function, id, name, arguments, args, tool_calls) ==
  [type |-> type, function |-> function, id |-> id, name |-> name,
   arguments |-> arguments, args |-> args, tool_calls |-> tool_calls]
NoToolCalls == [present |-> FALSE, items |-> <<>>]

ToolCall(id, name, args) == [id |-> id, name |-> name, args |-> args]
Extracted(tool_calls) == [raised |-> FALSE, tool_calls |-> tool_calls]
Failed == [raised |-> TRUE, tool_calls |-> <<>>]
\* item.get("id", default)
IdOf(item) == IF item.id # Absent THEN item.id ELSE reasoning_tc

\* Format 1 of both parsers: json.loads of a str is not guarded
OpenAiStyle(item) ==
  LET arguments == item.function.arguments
  IN IF arguments.t = "str"
     THEN IF json_loads_ok(arguments)
          THEN Extracted(<< ToolCall(IdOf(item), item.function.name, json_loads(arguments)) >>)
          ELSE Failed
     ELSE Extracted(<< ToolCall(IdOf(item), item.function.name, arguments) >>)
IsOpenAiStyle(item) ==
  /\ item.type = "function"
  /\ item.function.present
  /\ item.function.name # Absent
  /\ item.function.arguments # Absent
IsDirectStyle(item) ==
  item.name # Absent /\ (item.arguments # Absent \/ item.args # Absent)
\* Format 2 of both parsers, from `args` on: a str that is not JSON gives {}
DirectStyle(item, args) ==
  Extracted(<< ToolCall(IdOf(item), item.name,
                     IF args.t = "str"
                     THEN IF json_loads_ok(args) THEN json_loads(args) ELSE EmptyDict
                     ELSE args) >>)

\* ParseReasoningToolCallsMiddleware._parse_single_tool_call, and
\* _extract_tool_calls_from_reasoning on a list (tool_calls.extend per item;
\* an exception leaves the loop)
RECURSIVE _parse_single_tool_call(_), _extract_tool_calls_from_reasoning(_)
_parse_single_tool_call(item) ==
  IF IsOpenAiStyle(item) THEN OpenAiStyle(item)
  ELSE IF IsDirectStyle(item)
  THEN \* args = item.get("arguments", item.get("arguments", {}))
       DirectStyle(item, IF item.arguments # Absent THEN item.arguments ELSE EmptyDict)
  ELSE IF item.tool_calls.present
  THEN _extract_tool_calls_from_reasoning(item.tool_calls.items)
  ELSE Extracted(<<>>)
_extract_tool_calls_from_reasoning(items) ==
  IF items = <<>> THEN Extracted(<<>>)
  ELSE LET first == _parse_single_tool_call(Head(items))
           rest == _extract_tool_calls_from_reasoning(Tail(items))
       IN IF first.raised THEN Failed
          ELSE IF rest.raised THEN [raised |-> TRUE, tool_calls |-> first.tool_calls]
          ELSE Extracted(first.tool_calls \o rest.tool_calls)

\* test_middleware_simple._parse_single_tool_call and
\* extract_tool_calls_from_reasoning on a list
reference_parse_single_tool_call(item) ==
  IF IsOpenAiStyle(item) THEN OpenAiStyle(item)
  ELSE IF IsDirectStyle(item)
  THEN \* args = item.get("arguments", item.get("args", {}))
       DirectStyle(item, IF item.arguments # Absent THEN item.arguments ELSE item.args)
  ELSE Extracted(<<>>)
RECURSIVE reference_extract(_)
reference_extract(items) ==
  IF items = <<>> THEN Extracted(<<>>)
  ELSE LET first == reference_parse_single_tool_call(Head(items))
           rest == reference_extract(Tail(items))
       IN IF first.raised THEN Failed
          ELSE IF rest.raised THEN [raised |-> TRUE, tool_calls |-> first.tool_calls]
          ELSE Extracted(first.tool_calls \o rest.tool_calls)

\* The answer for reasoning_content of one kind: a list raises what an item
\* raises; a str (the JSON text of the list) keeps the tool calls extended
\* before a JSONDecodeError and returns them.
Answer(kind, r) ==
  IF kind = "str" THEN Extracted(r.tool_calls)
  ELSE IF r.raised THEN Failed ELSE r

\* the inputs: items over every combination of keys, alone or followed by a
\* plain item of either style
ArgumentArgs == {Absent, Dict(1), PyStr(2), NotANumber}
FunctionArgs ==
  {NoFunction, Function(Absent, Dict(1))}
    \cup {Function(PyStr(1), a) : a \in ArgumentArgs}
Nested == Item("", NoFunction, PyStr(9), PyStr(3), Dict(3), Absent, NoToolCalls)
ToolCallsArgs == {NoToolCalls, [present |-> TRUE, items |-> << Nested >>]}
Items ==
  {Item(type, function, id, name, arguments, args, tool_calls) :
     type \in {"function", "text"}, function \in FunctionArgs,
     id \in {Absent, PyStr(7)}, name \in {Absent, PyStr(4)},
     arguments \in ArgumentArgs, args \in {Absent, Dict(5), PyStr(6)},
     tool_calls \in ToolCallsArgs}
Plain ==
  {Item("function", Function(PyStr(1), PyStr(2)), PyStr(8), Absent, Absent, Absent, NoToolCalls),
   Item("", NoFunction, Absent, PyStr(4), Dict(1), Absent, NoToolCalls)}
ReasoningArgs ==
  {<<>>} \cup {<< a >> : a \in Items} \cup {<< a, b >> : a \in Items, b \in Plain}
         \cup {<< b, a >> : a \in Items, b \in Plain}

extract_tool_calls(kind, items) ==
  /\ ~extracted.done
  /\ LET r == Answer(kind, _extract_tool_calls_from_reasoning(items))
     IN extracted' = [done |-> TRUE, kind |-> kind, items |-> items,
                      raised |-> r.raised, tool_calls |-> r.tool_calls]
  /\ UNCHANGED << mailbox, uidIsInt, agent_instances, websocket, connVars, bookVars,
                  serverVars, toolVars, last, uiVars, calls, formatted_email, listed,
                  gateVars, registryVars, startupVars >>

NextReasoning ==
  \E kind \in {"list", "str"}, items \in ReasoningArgs : extract_tool_calls(kind, items)
SpecReasoning == Init /\ [][NextReasoning]_vars

\* ============================================================== properties
\* Vocabulary of the properties below.
CacheKeys == Sessions \cup {DefaultSession, EMAILS_UI_SESSION_ID}
IndexOps == {"delete_email", "move_email", "flag_email", "download_attachments"}

\* This step hands a result of worker thread t to the agent runtime.
Returns(t) == last' # NoResult /\ last'.t = t
\* This step is the first step of a tool call in worker thread t.
Invokes(t) == thread[t].pc = "idle" /\ (Returns(t) \/ thread'[t].pc # "idle")
\* This step is a step of the tool call running in worker thread t.
Steps(t) == Returns(t) \/ thread'[t] # thread[t]
\* The call, and the number of server commands it has issued, after this step.
CallOf(t) == IF Returns(t) THEN last'.call ELSE thread'[t].call
CmdsOf(t) == IF Returns(t) THEN last'.ncmd ELSE thread'[t].ncmd
\* No key resolves to a different list after this step, and the file is untouched.
CachesSame ==
  /\ \A k \in CacheKeys : CacheIn(_emails_caches', heap', k) = CacheOf(k)
  /\ disk' = disk
\* email_index addresses a slot of list l / addresses none.
InList(l, email_index) == email_index # PyNone /\ email_index.v \in 1..Len(l)
Outside(l, email_index) == email_index # PyNone /\ email_index.v \notin 1..Len(l)

\* ---- C1  Index stability.
\* A successful delete_email or move_email leaves every cache at its length
\* and changes no slot other than the one it addressed, which becomes a
\* tombstone: no other slot is shifted or renumbered, so every index that was
\* not tombstoned keeps resolving to the same email.
C1_IndexStability ==
  [][\A t \in Sessions :
       (Returns(t) /\ last'.res = "ok" /\ last'.call.op \in {"delete_email", "move_email"})
       => \A k \in CacheKeys :
            LET old == CacheOf(k)
                new == CacheIn(_emails_caches', heap', k)
            IN /\ Len(new) = Len(old)
               /\ \A i \in 1..Len(old) :
                    new[i] # old[i] => (i = last'.target.index /\ IsNone(new[i]))]_vars

\* A delete by index has just succeeded on a two-entry cache: the addressed
\* slot is a tombstone and the other slot still holds its email.
C1_Witness ==
  /\ last.res = "ok" /\ last.call.op = "delete_email"
  /\ LET l == CacheOf(DefaultSession)
     IN /\ Len(l) = 2
        /\ \E i, j \in 1..2 : /\ i # j /\ i = last.target.index
                              /\ IsNone(l[i]) /\ l[j] = Email("INBOX", j)

\* ---- C2  Cache replace is total.
\* When a read_emails call of session S completes, the cache of S is exactly
\* the ordered list of emails that call fetched.
C2_CacheReplaceTotal ==
  \A t \in Sessions :
    (last.t = t /\ last.call.op = "read_emails" /\ last.res \in {"ok", "no_emails"})
    => CacheOf(t) = last.emails

\* ---- C3  An index or uid operation is never misapplied.
\* The server command of a delete_email or move_email removes no message
\* other than the one the caller addressed (the cached email, in the folder
\* it was fetched from), and when the tool reports success that message is
\* gone from its folder.
C3_NeverMisapplied ==
  [][\A t \in Sessions :
       (thread[t].pc \in {"d_cmd", "m_cmd"} /\ Returns(t))
       => LET e == thread[t].target.email
          IN /\ \A f \in Selectable : \A n \in msgs[f] :
                  n \notin msgs'[f] => (f = e.folder /\ n = e.uid.v)
             /\ last'.res = "ok" => e.uid.v \notin msgs'[e.folder]]_vars

\* ---- C4  No IMAP operation while the gate is unheld.
\* The agent tools' part of the claim: whenever a step of a tool call issues
\* a server command, that call's worker thread holds _imap_lock.
C4_GateHeld ==
  [][\A t \in Sessions :
       (Steps(t) /\ CmdsOf(t) > thread[t].ncmd) => lock = t]_vars

\* ---- C5  At most one fetch.
\* At most one caller is between its folder select and the end of its fetch,
\* so the select/fetch pairs of read_emails and of
\* fetch_emails_for_folder_async never interleave.
C5_AtMostOneFetch ==
  Cardinality({t \in Sessions : thread[t].pc = "r_fetch"}
              \cup {u \in UiTasks : upc[u] = "fetch"}) <= 1

\* ---- C6  Session isolation.
\* A step of a tool call made in session S changes no cache other than the
\* one keyed by S; in particular not the cache keyed 'default'.
C6_SessionIsolation ==
  [][\A t \in Sessions :
       Steps(t) => \A k \in CacheKeys \ {t} :
                     CacheIn(_emails_caches', heap', k) = CacheOf(k)]_vars

C8_UidIndexEquivalence ==
  [][\A t \in Sessions :
       LET c == CallOf(t)
           l == IF thread[t].pc = "m_list" THEN heap[thread[t].cache]
                ELSE CacheOf(chat_session_id_ctx_get(t))
           shown == {i \in 1..Len(l) : ~IsNone(l[i]) /\ l[i].uid.v = c.email_uid.v}
           tgt == IF Returns(t) THEN last'.target ELSE thread'[t].target
       IN ( /\ \/ (Invokes(t) /\ mailbox
                      /\ c.op \in {"delete_email", "flag_email", "download_attachments"})
                 \/ (thread[t].pc = "m_list" /\ Steps(t))
            /\ c.email_index = PyNone /\ c.email_uid # PyNone )
          => IF shown = {}
             THEN Returns(t) /\ last'.res = "not_found" /\ last'.ncmd = 0
             ELSE /\ tgt.index = Least(shown) /\ tgt.email = l[Least(shown)]
                  /\ Returns(t) => last'.res \notin {"not_found", "invalid_uid"}]_vars

ErrorResults ==
  {"not_connected", "invalid_index", "already_deleted", "invalid_uid", "not_found",
   "need_id", "no_dest", "folder_not_found", "invalid_flag", "failed"}

C10_ExactlyOneIdentifier ==
  \A t \in Sessions :
    (last.t = t /\ last.call.op \in IndexOps
       /\ (last.call.email_index = PyNone) = (last.call.email_uid = PyNone))
    => (last.res \in ErrorResults /\ last.ncmd = 0)

\* ---- C11  Tool functions never raise.
\* Every tool call ends by returning a string to the agent runtime, whatever
\* its input (an unknown folder and a malformed start_date included): no
\* result handed to the runtime is a propagated exception.
C11_ToolsNeverRaise == last.res # "raised"

\* ---- C12  Degraded mode.
\* While the IMAP handle is absent (mailbox is None) every email-dependent
\* tool call returns an error string, having issued no server command and
\* changed no cache.
C12_DegradedMode ==
  [][\A t \in Sessions :
       (~mailbox /\ Returns(t))
       => /\ last'.res \in ErrorResults
          /\ last'.ncmd = 0
          /\ CachesSame /\ UNCHANGED serverVars]_vars

\* ---- C13  Persistence on change.
\* When an operation that changed a cache has completed (read_emails, or a
\* successful delete_email or move_email), the snapshot file holds exactly
\* the keys of the cache map and, for each key, a list of the length of the
\* in-memory list with a null at every tombstone and the uid of the cached
\* email at every other position.
C13_PersistenceOnChange ==
  (last.call.op \in {"read_emails", "delete_email", "move_email"} /\ last.res = "ok")
  => /\ DOMAIN disk = DOMAIN _emails_caches
     /\ \A k \in DOMAIN _emails_caches :
          /\ Len(disk[k]) = Len(CacheOf(k))
          /\ \A i \in 1..Len(CacheOf(k)) :
               disk[k][i] = IF IsNone(CacheOf(k)[i]) THEN PyNone ELSE CacheOf(k)[i].uid

\* ---- C14  Recovery as tombstones.
\* Right after the load every session id of a readable snapshot has a cache
\* of the persisted length with a tombstone in every slot, and an unreadable
\* or missing file leaves the cache map empty.  While the cache of session S
\* still consists of tombstones only, a delete_email, flag_email or
\* download_attachments call of S on a connected mailbox is answered with
\* the already-removed error for every email_index in 1..len and with the
\* not-found error for every email_uid, and issues no server command.
C14_RecoveryAsTombstones ==
  /\ calls = 0 =>
       IF \E k \in DOMAIN disk : disk[k] = Unreadable
       THEN DOMAIN _emails_caches = {}
       ELSE /\ DOMAIN _emails_caches = DOMAIN disk
            /\ \A k \in DOMAIN disk :
                 /\ Len(CacheOf(k)) = Len(disk[k])
                 /\ \A i \in 1..Len(disk[k]) : IsNone(CacheOf(k)[i])
  /\ \A t \in Sessions :
       LET l == CacheOf(t)
           c == last.call
       IN ( /\ last.t = t /\ mailbox
            /\ c.op \in {"delete_email", "flag_email", "download_attachments"}
            /\ l # <<>> /\ \A i \in 1..Len(l) : IsNone(l[i]) )
          => /\ (InList(l, c.email_index) /\ c.email_uid = PyNone)
                  => (last.res = "already_deleted" /\ last.ncmd = 0)
             /\ (c.email_index = PyNone /\ c.email_uid # PyNone /\ py_int_ok(c.email_uid))
                  => (last.res = "not_found" /\ last.ncmd = 0)

\* ---- C15  Session teardown.
\* DELETE /api/sessions/{S} leaves S absent from the cache map, from the
\* agent instances and from the snapshot file, and changes the cache and the
\* agent of no other session; the list a tool call of S consults afterwards
\* is empty, so every index is out of range for S; and when S had no cache
\* the cache map and the file are left as they were.
C15_SessionTeardown ==
  [][\A s \in Sessions :
       delete_session(s)
       => /\ s \notin DOMAIN _emails_caches' /\ s \notin agent_instances'
          /\ s \notin DOMAIN disk'
          /\ \A k \in CacheKeys \ {s} :
               /\ CacheIn(_emails_caches', heap', k) = CacheOf(k)
               /\ k \in agent_instances' <=> k \in agent_instances
          /\ CacheIn(_emails_caches', heap', chat_session_id_ctx_get(s)) = <<>>
          /\ s \notin DOMAIN _emails_caches => UNCHANGED << _emails_caches, disk >>]_vars

\* ---- C16  Folder priority ordering.
\* The ordered folder list under a priority table: exactly the listed
\* folders without \Noselect, in non-decreasing priority, folders of equal
\* priority in the order the server listed them; and the five-folder example.
NamesOf(s) == [i \in 1..Len(s) |-> s[i].name]
ListedAt(name) == CHOOSE j \in 1..Len(websocket.listing) : websocket.listing[j].name = name
OrderedUnder(P(_)) ==
  LET o == websocket.ordered_folders
      l == websocket.listing
  IN /\ \A i \in 1..Len(o) : ~o[i].noselect
     /\ {o[i] : i \in 1..Len(o)} = {l[j] : j \in {k \in 1..Len(l) : ~l[k].noselect}}
     /\ \A i, j \in 1..Len(o) :
          i < j => \/ P(o[i].name) < P(o[j].name)
                   \/ (P(o[i].name) = P(o[j].name) /\ ListedAt(o[i].name) < ListedAt(o[j].name))
     /\ l = FiveFolders
          => NamesOf(o) = << "INBOX", "Sent", "Trash", "[Gmail]/All Mail", "Custom" >>

\* The table as claimed: the eight folder kinds by their names and the
\* [Gmail]/ forms of these names, 100 for any other name with both brackets,
\* 200 for everything else.
C16_ClaimedPriority(name) ==
  LET n == lower(name)
  IN CASE n = "inbox" -> 0
       [] n \in {"sent", "[gmail]/sent"} -> 10
       [] n \in {"drafts", "[gmail]/drafts"} -> 20
       [] n \in {"junk", "spam", "[gmail]/junk", "[gmail]/spam"} -> 30
       [] n \in {"trash", "[gmail]/trash"} -> 40
       [] n \in {"archive", "all mail", "[gmail]/archive", "[gmail]/all mail"} -> 50
       [] n \in {"starred", "[gmail]/starred"} -> 60
       [] n \in {"important", "[gmail]/important"} -> 70
       [] OTHER -> IF has_open_bracket(n) /\ has_close_bracket(n) THEN 100 ELSE 200

C16_FolderPriorityOrdering ==
  websocket.pc = "loop" => OrderedUnder(C16_ClaimedPriority)

\* The table as the code has it: further names are recognised (sent items,
\* sent mail, draft, bulk mail, deleted, deleted items, deleted messages,
\* bin, flagged), and of the [Gmail]/ forms only sent, drafts, spam, trash,
\* all mail, starred and important.
C16_CodePriority(name) ==
  LET n == lower(name)
  IN CASE n = "inbox" -> 0
       [] n \in {"sent", "sent items", "sent mail", "[gmail]/sent"} -> 10
       [] n \in {"drafts", "draft", "[gmail]/drafts"} -> 20
       [] n \in {"junk", "spam", "bulk mail", "[gmail]/spam"} -> 30
       [] n \in {"trash", "deleted", "deleted items", "deleted messages", "bin", "[gmail]/trash"} -> 40
       [] n \in {"archive", "all mail", "[gmail]/all mail"} -> 50
       [] n \in {"starred", "flagged", "[gmail]/starred"} -> 60
       [] n \in {"important", "[gmail]/important"} -> 70
       [] OTHER -> IF has_open_bracket(n) /\ has_close_bracket(n) THEN 100 ELSE 200

C16_FolderPriorityOrderingAmended ==
  websocket.pc = "loop" => OrderedUnder(C16_CodePriority)

\* The five-folder listing has been ordered, Trash and [Gmail]/All Mail
\* ahead of Custom.
C16_Witness ==
  /\ websocket.pc = "loop"
  /\ websocket.listing = FiveFolders
  /\ NamesOf(websocket.ordered_folders) = << "INBOX", "Sent", "Trash", "[Gmail]/All Mail", "Custom" >>

\* ---- C17  Streaming protocol order on /ws/emails.
\* The messages sent so far other than status and pong, and what the claim
\* says of them for the ordered folders F: first one folders message; then
\* for the k-th folder a folder_loading and after it one folder_loaded or
\* error, both for that folder; then, after the last folder's outcome, one
\* complete; nothing else.
IsProtocolMessage(m) == m.type \notin {"status", "pong"}
StreamLog == SelectSeq(websocket.out, IsProtocolMessage)
InProtocolOrder(F, M) ==
  /\ Len(M) <= 2 * Len(F) + 2
  /\ \A i \in 1..Len(M) :
       IF i = 1 THEN M[i].type = "folders"
       ELSE IF i = 2 * Len(F) + 2 THEN M[i].type = "complete"
       ELSE IF i % 2 = 0 THEN M[i].type = "folder_loading" /\ M[i].folder = F[i \div 2]
       ELSE M[i].type \in {"folder_loaded", "error"} /\ M[i].folder = F[(i - 1) \div 2]
\* pong is sent after complete only; a ping is answered with pong and the
\* connection stays; a refresh ends the connection.
PongAfterComplete ==
  \A i \in 1..Len(websocket.out) :
    websocket.out[i].type = "pong" => \E j \in 1..(i - 1) : websocket.out[j].type = "complete"
PingAndRefresh ==
  /\ WsPing => /\ websocket'.out = Append(websocket.out, [type |-> "pong", folder |-> NoFolder])
               /\ websocket'.pc = "open"
  /\ WsRefresh => websocket'.pc = "closed"

\* As claimed: the messages are always in this order, and when the handler
\* has got to the end of its loop or has ended, the folders message, every
\* folder's pair and the complete message have all been sent.
C17_StreamingProtocolOrder ==
  /\ [](LET F == NamesOf(websocket.ordered_folders)
        IN /\ InProtocolOrder(F, StreamLog)
           /\ websocket.pc \in {"open", "closed"} => Len(StreamLog) = 2 * Len(F) + 2
           /\ PongAfterComplete)
  /\ [][PingAndRefresh]_vars

\* As the code has it: the same when the folder list is obtained; when it
\* is not (mailbox still None after init_email, or the listing fails) the
\* handler sends one error message without a folder and ends, having sent
\* no folders, folder_loading or complete message.
C17_StreamingProtocolOrderAmended ==
  /\ [](LET F == NamesOf(websocket.ordered_folders)
        IN /\ \/ /\ InProtocolOrder(F, StreamLog)
                 /\ websocket.pc \in {"open", "closed"} => Len(StreamLog) = 2 * Len(F) + 2
              \/ /\ StreamLog = << [type |-> "error", folder |-> NoFolder] >>
                 /\ websocket.pc = "closed"
           /\ PongAfterComplete)
  /\ [][PingAndRefresh]_vars

\* The first folder failed, the second was loaded all the same, complete
\* was sent and a ping has been answered.
C17_Witness ==
  /\ websocket.pc = "open"
  /\ \E i, j, k, n \in 1..Len(websocket.out) :
       /\ i < j /\ j < k /\ k < n
       /\ websocket.out[i] = [type |-> "error", folder |-> "INBOX"]
       /\ websocket.out[j] = [type |-> "folder_loaded", folder |-> "[Gmail]/Trash"]
       /\ websocket.out[k].type = "complete"
       /\ websocket.out[n].type = "pong"

\* ---- C18  Destination aliasing.
\* In move_email a destination that is no folder name while "[Gmail]/" +
\* destination is one is replaced by the aliased name, against which the
\* move is issued, and a successful move tombstones the addressed slot; a
\* destination for which neither name exists is answered with the
\* folder-not-found error (or the failure of the listing), with no move and
\* no cache change.  read_emails of a folder that is absent after the alias
\* attempt is answered with the folder-not-found error, with no cache change.
C18_DestinationAliasing ==
  [][\A t \in Sessions :
       /\ (thread[t].pc = "m_list" /\ Steps(t))
            => LET d == thread[t].call.folder
               IN /\ (d \notin FolderNames /\ (GmailPrefix \o d) \in FolderNames /\ ~Returns(t))
                       => thread'[t].call.folder = GmailPrefix \o d
                  /\ (d \notin FolderNames /\ (GmailPrefix \o d) \notin FolderNames)
                       => /\ Returns(t) /\ last'.res \in {"folder_not_found", "failed"}
                          /\ CachesSame /\ UNCHANGED msgs
       /\ (thread[t].pc = "m_cmd" /\ Returns(t) /\ last'.res = "ok")
            => \A k \in CacheKeys :
                 (k \in DOMAIN _emails_caches /\ _emails_caches[k] = thread[t].cache)
                 => IsNone(CacheIn(_emails_caches', heap', k)[thread[t].target.index])
       /\ (Invokes(t) /\ mailbox /\ CallOf(t).op = "read_emails"
             /\ CallOf(t).folder \notin FolderNames)
            => /\ Returns(t) /\ last'.res = "folder_not_found"
               /\ CachesSame]_vars

\* ---- C19  Flag alias mapping.
\* A flag_email call whose identifier resolves: with flag_type, compared
\* without regard to case, one of seen / read, flagged / important /
\* starred, answered, draft, exactly one server command is issued, the
\* flag-set command with \Seen, \Flagged, \Answered, \Draft respectively,
\* the resolved uid and the given value; with any other flag_type the
\* invalid-flag error is returned and no server command is issued.
C19_FlagAliasMapping ==
  (last.call.op = "flag_email" /\ last.target.index >= 1)
  => LET ft == lower(last.call.flag_type)
         flag == CASE ft \in {"seen", "read"} -> SEEN
                   [] ft \in {"flagged", "important", "starred"} -> FLAGGED
                   [] ft = "answered" -> ANSWERED
                   [] ft = "draft" -> DRAFT
                   [] OTHER -> NoFlag
     IN IF flag # NoFlag
        THEN /\ last.res \in {"ok", "failed"}
             /\ last.ncmd = 1
             /\ last.sent = [uid |-> last.target.email.uid, flag |-> flag, value |-> last.call.value]
        ELSE last.res = "invalid_flag" /\ last.ncmd = 0 /\ last.sent = NoCmd

\* flag_email(email_index=1, flag_type="Important", value=False) has
\* succeeded with one command, unsetting \Flagged on the uid of entry 1.
C19_Witness ==
  /\ last.call.op = "flag_email" /\ last.res = "ok"
  /\ last.call.flag_type = "Important" /\ last.call.value = FALSE
  /\ last.call.email_index = PyInt(1)
  /\ last.ncmd = 1
  /\ last.sent = [uid |-> CacheOf(DefaultSession)[1].uid, flag |-> FLAGGED, value |-> FALSE]

\* ---- C20  Flags round-trip through the server only.
\* No step of a flag_email call changes any session cache or the snapshot
\* file (no tombstone, no change of a cached email, no change of length),
\* and a flag_email that reports success has issued its flag command
\* against the message its slot addresses: the connection had that
\* message's folder selected and the message was there, so that the next
\* read_emails of the folder reports the new flag state.
C20_FlagsRoundTrip ==
  [][\A t \in Sessions :
       /\ (Steps(t) /\ CallOf(t).op = "flag_email") => CachesSame
       /\ (thread[t].pc = "f_cmd" /\ Returns(t) /\ last'.res = "ok")
          => LET e == thread[t].target.email
             IN /\ selected = e.folder
                /\ e.uid.v \in msgs[e.folder]]_vars

\* ---- C21  Single connection.
\* At every moment at most one authenticated IMAP session is open for the
\* account, and the session that email_tools.mailbox refers to is never
\* replaced (by another session or by None) while it stays open.
C21_SingleConnection ==
  /\ [](Cardinality(imap_sessions) <= 1)
  /\ [][(handle # NoSession /\ handle' # handle) => handle \notin imap_sessions']_vars

\* ---- C22  HTTP error statuses.
\* When a UI-facing email endpoint answers: a request whose uid is not a
\* number is answered 400, a request answered while the mail service is not
\* connected (the SMTP handle for the send endpoint, the IMAP handle for the
\* others) is answered 503 (either of the two when both apply), and in both
\* cases the handler has sent no command to the mail server.
C22_HttpErrorStatuses ==
  [][\A r \in Endpoints :
       (request[r].status = 0 /\ request'[r].status # 0)
       => LET q == request'[r]
              malformed == /\ r \in {"flag_email_endpoint", "delete_email_endpoint",
                                     "move_email_endpoint"}
                           /\ ~py_int_ok(q.email_uid)
              unconnected == IF r = "send_email_endpoint" THEN ~q.smtp_client ELSE ~mailbox
          IN (malformed \/ unconnected)
             => /\ q.status \in (IF malformed THEN {400} ELSE {})
                                \cup (IF unconnected THEN {503} ELSE {})
                /\ q.ncmd = 0]_vars

\* ---- C23  Address-book id assignment.
\* A successful add_people on a non-empty book creates exactly one new entry,
\* whose key and id field are the decimal string of the greatest existing
\* numeric id plus one and whose name is the given one, and leaves every
\* existing entry unchanged; a successful search_address_book(name) returns
\* exactly the entries of that name, each with its id (so it returns the new
\* entry after the add); add_people on an empty book fails and leaves the
\* book empty.
C23_IdAssignment ==
  [][/\ (reply'.op = "add_people" /\ calls' # calls)
        => LET book == address_book_data
               ids == {k.v : k \in DOMAIN book}
               n == (CHOOSE m \in ids : \A j \in ids : j <= m) + 1
           IN /\ (book # << >> /\ reply'.res = "ok")
                 => /\ DOMAIN address_book_data' = DOMAIN book \cup {PyStr(n)}
                    /\ PyStr(n) \notin DOMAIN book
                    /\ address_book_data'[PyStr(n)].id = PyStr(n)
                    /\ address_book_data'[PyStr(n)].name = reply'.name
                    /\ reply'.new_id = PyStr(n)
                    /\ \A k \in DOMAIN book : address_book_data'[k] = book[k]
              /\ book = << >> => (reply'.res # "ok" /\ address_book_data' = << >>)
     /\ (reply'.op = "search_address_book" /\ calls' # calls /\ reply'.res = "ok")
        => /\ {reply'.infos[i] : i \in 1..Len(reply'.infos)}
                = {address_book_data[k] : k \in {j \in DOMAIN address_book_data :
                                                   address_book_data[j].name = reply'.name}}
           /\ \A i \in 1..Len(reply'.infos) :
                reply'.infos[i].id \in DOMAIN address_book_data]_vars

\* After add_people(name="Zed", emails=["a"]) on the book with ids 1 and 2,
\* search_address_book(name="Zed") has returned the entry with id "3".
C23_Witness ==
  /\ reply.op = "search_address_book" /\ reply.name = "Zed" /\ reply.res = "ok"
  /\ reply.infos = << Person(3, "Zed", PyList(<< "a" >>), NoList) >>
  /\ DOMAIN address_book_data = {PyStr(1), PyStr(2), PyStr(3)}

\* ---- C24  Address-book ids are monotonically increasing.
\* Every id that add_people assigns is strictly greater than every id an
\* earlier add_people assigned, so no id is assigned twice and the id of a
\* deleted entry is never reused.
C24_IdsMonotonic ==
  [][(reply'.op = "add_people" /\ calls' # calls /\ reply'.new_id # PyNone)
     => reply'.new_id.v > assigned]_vars

\* A step of the tool modify_address_book / of PUT /api/contacts/{id}.
ToolStep == calls' # calls /\ reply'.op \notin {"update_contact", "search_address_book"}
PutStep == calls' # calls /\ reply'.op = "update_contact"
BookSame == address_book_data' = address_book_data /\ address_book_json' = address_book_json

\* ---- C25  Address-book name uniqueness: in every reachable state no two
\* entries of the book have the same name, and add_people with a name that
\* an entry already has returns the 'already exists' error and leaves the
\* in-memory book and the file unchanged.
C25_NameUniqueness ==
  /\ [](\A j, k \in DOMAIN address_book_data :
          address_book_data[j].name = address_book_data[k].name => j = k)
  /\ [][(ToolStep /\ reply'.op = "add_people"
         /\ \E k \in DOMAIN address_book_data : address_book_data[k].name = reply'.name)
        => (reply'.res = "exists" /\ BookSame)]_vars

\* ---- C26  Address-book validation is all-or-nothing: a modify_address_book
\* call that fails validation (unknown operation, missing name, id not in the
\* book, missing emails or groups) reports an error and leaves the in-memory
\* book and the file unchanged; a PUT /api/contacts/{id} that does not answer
\* 200 leaves the contact, in the file and in memory, as the file had it.
C26_ValidationAllOrNothing ==
  [][/\ ToolStep
        => LET r == reply'
               invalid ==
                 \/ r.op \notin Operations
                 \/ r.op \in {"add_people", "edit_name"} /\ r.name \in {NoText, ""}
                 \/ r.op # "add_people" /\ r.id \notin DOMAIN address_book_data
                 \/ r.op \in {"add_emails", "delete_emails"} /\ r.emails \in {NoList, PyList(<<>>)}
                 \/ r.op \in {"add_groups", "delete_groups"} /\ r.groups \in {NoList, PyList(<<>>)}
           IN invalid => (r.res # "ok" /\ BookSame)
     /\ (PutStep /\ reply'.res # "200" /\ reply'.id \in DOMAIN address_book_json)
        => /\ reply'.id \in DOMAIN address_book_json'
           /\ address_book_json'[reply'.id] = address_book_json[reply'.id]
           /\ reply'.id \in DOMAIN address_book_data'
           /\ address_book_data'[reply'.id] = address_book_json[reply'.id]]_vars

\* ---- C27  Set semantics of emails and groups: no entry's emails or groups
\* list ever holds a value twice; add_emails / add_groups on an existing entry
\* succeeds and afterwards each given value occurs exactly once in the list;
\* delete_emails / delete_groups on an existing entry succeeds and afterwards
\* none of the given values occurs.
C27_SetSemantics ==
  /\ [](\A k \in DOMAIN address_book_data : \A key \in {"emails", "groups"} :
          LET l == address_book_data[k][key].v
          IN \A i, j \in 1..Len(l) : l[i] = l[j] => i = j)
  /\ [][(ToolStep /\ reply'.op \in {"add_emails", "delete_emails", "add_groups", "delete_groups"}
         /\ reply'.id \in DOMAIN address_book_data)
        => LET key == IF reply'.op \in {"add_emails", "delete_emails"} THEN "emails" ELSE "groups"
               given == reply'[key].v
               l == address_book_data'[reply'.id][key].v
           IN given # <<>>
              => /\ reply'.res \in {"ok", "save_error"}
                 /\ \A g \in 1..Len(given) :
                      Cardinality({i \in 1..Len(l) : l[i] = given[g]})
                        = IF reply'.op \in {"add_emails", "add_groups"} THEN 1 ELSE 0]_vars

\* ---- C28  Address-book persistence: after a mutating operation that
\* succeeds the file equals the in-memory book and every entry's id field is
\* its key; after one that reports an error saving, the in-memory book equals
\* the file.
C28_Persistence ==
  [][(ToolStep /\ reply'.op \in Operations)
     => /\ reply'.res = "ok"
           => /\ address_book_json' = address_book_data'
              /\ \A k \in DOMAIN address_book_json' : address_book_json'[k].id = k
        /\ reply'.res = "save_error" => address_book_data' = address_book_json']_vars

\* A raw From of the form 'Name <addr>': the name, the address between the
\* only pair of angle brackets, nothing after it.
NameAddrForm(s) ==
  /\ Len(s) >= 3 /\ s[Len(s)] = ">"
  /\ \E i \in 1..(Len(s) - 2) :
       /\ s[i] = "<"
       /\ \A k \in 1..Len(s) : (s[k] = "<" => k = i) /\ (s[k] = ">" => k = Len(s))
AddrOf(s) == SubSeq(s, (CHOOSE i \in 1..Len(s) : s[i] = "<") + 1, Len(s) - 1)
\* the name trimmed of quotes and white space
Trimmed(s) ==
  LET keep == {i \in 1..Len(s) : s[i] \notin {" ", "\""}}
  IN IF keep = {} THEN <<>>
     ELSE SubSeq(s, CHOOSE i \in keep : \A k \in keep : i <= k,
                    CHOOSE j \in keep : \A k \in keep : k <= j)
NameOf(s) == Trimmed(SubSeq(s, 1, (CHOOSE i \in 1..Len(s) : s[i] = "<") - 1))

\* ---- C29  Sender parsing in the UI fetch: for every raw From the fetch has
\* formatted, a raw From of the form 'Name <addr>' gives the display name Name
\* (trimmed of quotes and white space) and the address addr; a raw From without
\* angle brackets that contains '@' gives an empty display name and the whole
\* string as address; any other raw From gives the whole string as display
\* name and an empty address.
C29_SenderParsing ==
  formatted_email.done
    => LET s == formatted_email.raw
           name == formatted_email.fromName
           addr == formatted_email.from
       IN IF NameAddrForm(s) THEN name = NameOf(s) /\ addr = AddrOf(s)
          ELSE IF Member("@", s) /\ ~Member("<", s) /\ ~Member(">", s)
               THEN name = <<>> /\ addr = s
          ELSE name = s /\ addr = <<>>

\* ---- C30  read_emails filtering: the emails returned are exactly the
\* messages of the folder, in order, that are unread when unread_only, sent by
\* one of the senders in from_, received on or after start_date and received
\* on or before end_date (a message dated on end_date itself is included),
\* truncated to at most num_emails.
C30_ReadFilters ==
  listed.res = "ok"
    => LET wanted(m) ==
             /\ listed.unread_only => ~m.seen
             /\ listed.from_ \notin {NoList, PyList(<<>>)} => Member(m.from_, listed.from_.v)
             /\ listed.start_date # PyNone => m.date >= listed.start_date.v
             /\ listed.end_date # PyNone => m.date <= listed.end_date.v
           all == UidsOf(SelectSeq(Letters, wanted))
       IN /\ listed.num_emails = PyNone => listed.uids = all
          /\ listed.num_emails # PyNone
               => /\ Len(listed.uids) <= listed.num_emails.v
                  /\ Len(listed.uids) = IF Len(all) < listed.num_emails.v
                                        THEN Len(all) ELSE listed.num_emails.v
                  /\ listed.uids = SubSeq(all, 1, Len(listed.uids))

\* ---- C33  Tombstone only after server success.
\* No step of a delete_email or move_email call changes the list of any
\* session except the step that returns success, which has issued the server
\* command and sets one slot to None; a call that returns 'Failed to ...'
\* leaves every list as it was, and the slot it addressed still holds the
\* email, so the same index can be retried.
C33_TombstoneAfterSuccess ==
  [][\A t \in Sessions :
       (Steps(t) /\ CallOf(t).op \in {"delete_email", "move_email"})
         => /\ ~(Returns(t) /\ last'.res = "ok")
                 => \A k \in CacheKeys : CacheIn(_emails_caches', heap', k) = CacheOf(k)
            /\ (Returns(t) /\ last'.res = "ok")
                 => /\ last'.ncmd >= 1
                    /\ \A k \in CacheKeys :
                         \/ CacheIn(_emails_caches', heap', k) = CacheOf(k)
                         \/ \E i \in 1..Len(CacheOf(k)) :
                              /\ CacheOf(k)[i] # NoneEntry
                              /\ CacheIn(_emails_caches', heap', k)
                                   = [CacheOf(k) EXCEPT ![i] = NoneEntry]
            /\ (Returns(t) /\ last'.res = "failed" /\ last'.target.index > 0
                /\ thread[t].cache \in {_emails_caches[k] : k \in DOMAIN _emails_caches})
                 => heap[thread[t].cache][last'.target.index] # NoneEntry]_vars

\* ---- C34  Atomic replace.
\* When read_emails returns or fails before it has cleared the list (invalid
\* date, folder select or fetch error), no step of the call has changed any
\* list; when it returns or fails after that, the list of its session is the
\* complete fetched list: never the cleared list, never a proper prefix.
C34_AtomicReplace ==
  [][\A t \in Sessions :
       (Steps(t) /\ CallOf(t).op = "read_emails")
         => /\ thread[t].pc \in {"idle", "r_fetch"}
                 => \A k \in CacheKeys : CacheIn(_emails_caches', heap', k) = CacheOf(k)
            /\ (Returns(t) /\ thread[t].pc \in {"r_get", "r_append"})
                 => CacheIn(_emails_caches', heap', chat_session_id_ctx_get(t)) = last'.emails]_vars

\* ---- C35  Displayed index equals cache slot.
\* When read_emails returns its text, the entry printed as "Email #i (UID: u)"
\* is the email at slot i of the list that the tools of that session resolve:
\* the list has as many slots as emails were printed and slot i has uid u, so
\* that delete_email(email_index=i) resolves to uid u.
C35_DisplayedIndex ==
  [][\A t \in Sessions :
       (Returns(t) /\ last'.call.op = "read_emails" /\ last'.res = "ok")
         => LET l == CacheIn(_emails_caches', heap', chat_session_id_ctx_get(t))
            IN /\ Len(l) = Len(last'.emails)
               /\ \A i \in 1..Len(last'.emails) :
                    /\ l[i] # NoneEntry
                    /\ l[i].uid = last'.emails[i].uid
                    /\ ResolveInt(l, PyInt(i), PyNone).uid = last'.emails[i].uid]_vars

\* ---- C38  UI flagging works on what the UI shows.
\* When POST /api/emails/{uid}/flag is answered for a uid that the UI cache
\* of some folder lists (obtained through GET /api/emails or /ws/emails), with
\* one of the flag types of the tool, the handler has issued the flag command,
\* and it is answered 200 or, when the server rejected the command, 400;
\* no chat session needs to have called read_emails.
C38_UiFlagging ==
  [][(request["flag_email_endpoint"].status = 0
      /\ request'["flag_email_endpoint"].status # 0
      /\ IsFlagType(request'["flag_email_endpoint"].flag_type)
      /\ \E f \in DOMAIN _emails_ui_cache :
           Member(request'["flag_email_endpoint"].email_uid, _emails_ui_cache[f]))
     => /\ request'["flag_email_endpoint"].ncmd >= 1
        /\ request'["flag_email_endpoint"].status \in {200, 400}]_vars

\* C37: the list and the unread counter of a folder are written only by a
\* fetch of that folder as it leaves the gate, both in that one step; the
\* counter is the number of cached emails of the folder without \Seen (so at
\* most the length of the list); the entries of every other folder stay.
C37_FolderCache ==
  /\ [][\A f \in FolderNames \cup {"Nope"} :
          LET had == f \in DOMAIN _emails_ui_cache
              has == f \in DOMAIN _emails_ui_cache'
              same == /\ has = had
                      /\ (f \in DOMAIN _folder_unread_counts') = (f \in DOMAIN _folder_unread_counts)
                      /\ had => /\ _emails_ui_cache'[f] = _emails_ui_cache[f]
                                /\ isUnread'[f] = isUnread[f]
                                /\ _folder_unread_counts'[f] = _folder_unread_counts[f]
          IN ~same => \E u \in UiTasks : /\ lock = u /\ lock' = "free"
                                         /\ upc[u] = "fetch" /\ ufolder[u] = f]_vars
  /\ [](\A f \in DOMAIN _emails_ui_cache :
          /\ f \in DOMAIN _folder_unread_counts
          /\ f \in DOMAIN isUnread
          /\ Len(isUnread[f]) = Len(_emails_ui_cache[f])
          /\ _folder_unread_counts[f]
               = Cardinality({i \in 1..Len(isUnread[f]) : isUnread[f][i]})
          /\ _folder_unread_counts[f] <= Len(_emails_ui_cache[f]))

\* C36: _imap_lock is held only while its holder runs the folder listing, the
\* folder.set or the fetch (never while a task formats, sends, pauses or is
\* idle, also after a command raised), and a task queueing for the lock
\* eventually holds it.
C36_GateReleased ==
  /\ [](\A u \in UiTasks : (lock = u) <=> (upc[u] \in {"list", "select", "fetch"}))
  /\ [](lock \in UiTasks \cup {"free"})
  /\ \A u \in UiTasks : (upc[u] = "waiting") ~> (lock = u)

\* the /ws/emails stream holds the lock and GET /api/emails queues behind it
C36_Witness == lock = "ws" /\ upc["api"] = "waiting" /\ _waiters = << "api" >>

\* C39: a WebSocket registered on accept is no longer in active_connections
\* once its connection has ended, and active_connections is empty when every
\* accepted connection has ended.
C39_RegistryCleanup ==
  /\ [](\A w \in WebSockets :
          connections[w].pc = "closed" => websocket_id(w) \notin DOMAIN active_connections)
  /\ []((\A w \in WebSockets : connections[w].pc # "open") => DOMAIN active_connections = {})

\* C31: initialize_agent_async returns whatever happens to init_email and
\* initialize_agent (also when neither ever finishes); every health check
\* answers "healthy" with imap_connected / smtp_connected true exactly when
\* mailbox / smtp_client is a handle, and with agent.initialized true only
\* if an agent initialisation has succeeded.
C31_StartupTerminates ==
  /\ <>(startup.pc = "returned")
  /\ [][health' # health =>
          /\ health'.status = "healthy"
          /\ health'.imap_connected = mailbox
          /\ health'.smtp_connected = smtp_client
          /\ health'.initialized => agent_succeeded]_vars
  /\ [](agent_initialized => agent_succeeded)

\* the coroutine has returned although both threads are still running, and a
\* health check was answered
C31_Witness ==
  /\ startup.pc = "returned"
  /\ startup.email # "done"
  /\ startup.agent = "running"
  /\ health.status = "healthy"

\* C32: for every reasoning_content the middleware extracts what the
\* reference parser extracts: in input order one tool call per OpenAI-style
\* or direct-style item, with the arguments / args value (parsed when it is
\* JSON text) and the item's id when present, and nothing for other items.
C32_SameAsReference ==
  extracted.done =>
    LET r == Answer(extracted.kind, reference_extract(extracted.items))
    IN /\ extracted.raised = r.raised
       /\ extracted.tool_calls = r.tool_calls

====
